---- MODULE Spec2Model ----
(***************************************************************************)
(* The worker pool of demo-profiling-and-optimization-go in its two        *)
(* designs: BadWorker (worker/internal/worker/bad_worker.go) and           *)
(* OptimizedWorker (worker/internal/worker/optimized_worker.go).           *)
(*                                                                         *)
(* Every goroutine is a process of the model with its own program counter; *)
(* a step is one statement that touches shared state (the channel, the     *)
(* context, the mutex, the wait-group, the result slice).  A panic of any  *)
(* goroutine aborts the Go process: it is recorded in fault and no step    *)
(* follows it.                                                             *)
(*                                                                         *)
(* Task.Process (worker/internal/task/task.go) is an operator over tasks   *)
(* whose integers are Go ints: 64-bit two's complement words, kept as      *)
(* their eight bytes, lowest first, so that + and * wrap as they do in Go. *)
(***************************************************************************)
EXTENDS Integers, Sequences, FiniteSets, TLC

\* ---------------------------------------------------------------- bounds
MaxWorkers == 2     \* Start(n) is called with n in 0..MaxWorkers
NumTasks == 2       \* task ids 1..NumTasks are handed out to the producers
NumProducers == 2   \* goroutines calling ProcessTasks
MaxCap == 2         \* NewOptimizedWorker(k) is called with k in 0..MaxCap
NumStoppers == 2    \* goroutines calling Stop()
NumReaders == 2     \* calls of GetResults()
NumResultsProducers == 1    \* goroutines calling ProcessTasks while GetResults is called
DataSize == 2       \* len(Data) of the tasks handed to the pool
MaxLen == 4         \* len(Data) of the tasks Process is applied to on its own
MaxCalls == 2       \* calls of Process on one task
MaxTicks == 3       \* ticks of one helperTask goroutine
MaxSamples == 3     \* ticks of collectMetrics
MaxAdvance == 3     \* steps of the runtime's counters
MaxConsumers == 2   \* largest MAX_WORKERS of the super-worker
NumDeliveries == 3  \* deliveries the broker sends

Workers == 1..MaxWorkers
Tasks == 1..NumTasks
Producers == 1..NumProducers
Stoppers == 1..NumStoppers
Readers == 1..NumReaders

NoFault == "none"
SendOnClosed == "send on closed channel"
CloseOfClosed == "close of closed channel"

VARIABLES
    design,         \* "bad" | "optimized": which constructor built the pool
    cap,            \* capacity of taskQueue (0: unbuffered)
    taskQueue,      \* buffered content of the channel, oldest first
    closed,         \* close(taskQueue) has happened
    ctxDone,        \* w.cancel() has happened (optimized only)
    results,        \* w.results
    mu,             \* holder of w.mu, or "free"
    wg,             \* counter of w.wg
    nworkers,       \* -1 before Start, else the n of Start(n)
    wpc, wcur,      \* per worker goroutine: position, task in hand (0: none)
    helper,         \* per task id: "none" | "live" | "done" helperTask goroutine
    mon, smp,       \* monitor / collectMetrics goroutine: position
    ppc, plo, phi, pnext, \* per ProcessTasks caller: position, its tasks lo..hi, next to send
    nextId,         \* first task id not yet given to a producer
    spc,            \* per Stop caller: position
    atStop,         \* history: what ProcessTasks had accepted when Stop was first called
    tasksProcessed, \* the TasksProcessed counter (summed over labels)
    enqueued, dequeued, \* history: sends completed, receives completed
    fault,          \* NoFault, or the panic that aborted the process
    gpc, gret,      \* per GetResults call: position, the slice it returned
    gseen, gafter,  \* history: w.results when the call took the lock; whether
                    \* Stop() had returned when it did
    task,           \* the task Process is applied to on its own, or NoTask
    calls,          \* the Results its calls of Process returned, in order
    hpc, hid,       \* a helperTask goroutine on its own: position, its taskID
    checkData,      \* its slice: backing array, length, the array's content
    hi,             \* its loop index i
    hticks,         \* history: ticks it has completed
    hallocs,        \* history: backing arrays allocated for checkData
    memStats,       \* the runtime's cumulative counters (runtime.MemStats)
    m,              \* collectMetrics: the MemStats it read last
    lastTotalAlloc, lastNumGC, \* collectMetrics: its locals
    TotalAllocations, GCRuns,  \* the published counters (float64)
    reads,          \* history: the MemStats read at its ticks, in order
    advances,       \* history: steps the runtime's counters have made
    maxWorker,      \* WorkerController.maxWorker
    startpc,        \* WorkerController.Start: "idle" | "returned" ("none"
                    \* without a controller)
    messages,       \* the deliveries on the messages channel, oldest first
    msgClosed,      \* the messages channel is closed
    cpc, ccur,      \* per consumer loop: position, the delivery in hand
    pm,             \* per delivery: its processMessage goroutines' positions
    received,       \* history: per delivery, receives from messages
    sent,           \* history: deliveries the broker has sent
    body,           \* per delivery: its Body
    output,         \* the deliveries whose pokemon reached pokemon_generated
    leak,           \* GoroutineLeak: the handler's frame and its goroutines
    mixed,          \* a mixed benchmark of mutex_test.go: its variables
    publish,        \* the handler of /publish/:number: its frame
    call,           \* a call of NewTask: its arguments and what it returned
    gen             \* GeneratePokemon / GenerateStats: the frame

vars == <<design, cap, taskQueue, closed, ctxDone, results, mu, wg, nworkers,
          wpc, wcur, helper, mon, smp, ppc, plo, phi, pnext, nextId, spc, atStop,
          tasksProcessed, enqueued, dequeued, fault,
          gpc, gret, gseen, gafter, task, calls,
          hpc, hid, checkData, hi, hticks, hallocs,
          memStats, m, lastTotalAlloc, lastNumGC, TotalAllocations, GCRuns,
          reads, advances,
          maxWorker, startpc, messages, msgClosed, cpc, ccur, pm, received,
          sent, body, output,
          leak, mixed, publish, call, gen>>

chanVars == <<taskQueue, closed, enqueued, dequeued>>
workerVars == <<wpc, wcur>>
prodVars == <<ppc, plo, phi, pnext, nextId>>
stopVars == <<spc, atStop>>
bgVars == <<mon, smp>>
getVars == <<gpc, gret, gseen, gafter>>
taskVars == <<task, calls>>
helperVars == <<hpc, hid, checkData, hi, hticks, hallocs>>
metricVars == <<memStats, m, lastTotalAlloc, lastNumGC, TotalAllocations,
                GCRuns, reads, advances>>
ctlVars == <<maxWorker, startpc, messages, msgClosed, cpc, ccur, pm, received,
             sent, body, output>>
\* The fields of leak.
lpc == leak.pc          \* the handler's position ("none": no request)
li == leak.i            \* its loop variable i
lctx == leak.ctx        \* its ctx is done
lwg == leak.wg          \* counter of its wg
lgo == leak.go          \* per i: "none" | "running" | "exited" goroutine
lfired == leak.fired    \* per i: the goroutine's timer has fired
lresp == leak.resp      \* what the handler sent
\* The fields of mixed.
bench == mixed.bench    \* the benchmark that runs ("none": none)
bdata == mixed.data     \* its var data int
bmu == mixed.mu         \* its lock: the writer, or the set of readers
bpc == mixed.pc         \* per RunParallel goroutine: position
bleft == mixed.left     \* iterations of b.N not yet handed out by pb.Next()
breads == mixed.reads   \* history: read branches executed
bwrites == mixed.writes \* history: write branches executed
\* The fields of publish.
number == publish.number        \* the parameter ("none": no request)
qpc == publish.pc               \* the handler's position
numberInt == publish.numberInt  \* its numberInt
qdone == publish.done           \* iterations of its loop completed
qcalls == publish.calls         \* history: the Publish calls issued, with their outcome
qresp == publish.resp           \* what the handler sent
\* The fields of call.
args == call.args       \* the arguments (NoArgs: no call)
made == call.made       \* the task NewTask returned, or NoTask
\* The fields of gen.
dna == gen.dna          \* len(dna) (-1: no call)
genpc == gen.pc         \* the position
stats == gen.stats      \* the stats drawn so far, in the order of the code

\* The demo server's handlers, the mutex benchmarks, NewTask and GenerateStats.
appVars == <<leak, mixed, publish, call, gen>>
\* What is looked at on its own, outside a running pool: one helperTask
\* goroutine, the arithmetic of collectMetrics, the super-worker's controller.
otherVars == <<helperVars, metricVars, ctlVars, appVars>>
\* What no goroutine of the pool writes: the constructor's choices, what the
\* callers of GetResults hold, the task Process is applied to on its own.
poolConst == <<design, cap, getVars, taskVars, otherVars>>

\* ---------------------------------------------------------------- helpers
\* Holders of w.mu.
MuFree == <<"free", 0>>
MuWorker(w) == <<"worker", w>>
MuMonitor == <<"monitor", 0>>
MuSampler == <<"collectMetrics", 0>>
MuReader(r) == <<"GetResults", r>>

Running == fault = NoFault

\* --------------------------------------------------------------- Go ints
WordBytes == 8      \* bytes of a Go int on a 64-bit platform

RECURSIVE NatBytes(_, _)
NatBytes(n, k) == IF k = 0 THEN <<>>
                  ELSE <<n % 256>> \o NatBytes(n \div 256, k - 1)

\* The Go int that holds the integer n: two's complement, lowest byte first.
GoInt(n) == IF n >= 0 THEN NatBytes(n, WordBytes)
            ELSE LET c == NatBytes(-(n + 1), WordBytes)
                 IN [i \in 1..WordBytes |-> 255 - c[i]]

Negative(x) == x[WordBytes] >= 128

\* x + y of Go: byte-wise with carry, the carry out of the top byte is lost.
RECURSIVE AddCarry(_, _, _, _)
AddCarry(x, y, i, carry) ==
    IF i > WordBytes THEN <<>>
    ELSE LET s == x[i] + y[i] + carry
         IN <<s % 256>> \o AddCarry(x, y, i + 1, s \div 256)

IntAdd(x, y) == AddCarry(x, y, 1, 0)

\* x * y of Go: the low WordBytes bytes of the product, column by column.
RECURSIVE ColumnSum(_, _, _, _)
ColumnSum(x, y, k, i) ==
    IF i > k THEN 0 ELSE x[i] * y[k + 1 - i] + ColumnSum(x, y, k, i + 1)

RECURSIVE MulCarry(_, _, _, _)
MulCarry(x, y, k, carry) ==
    IF k > WordBytes THEN <<>>
    ELSE LET s == ColumnSum(x, y, k, 1) + carry
         IN <<s % 256>> \o MulCarry(x, y, k + 1, s \div 256)

IntMul(x, y) == MulCarry(x, y, 1, 0)

\* -x of Go: the two's complement (the least int is its own negation).
IntNeg(x) == IntAdd([i \in 1..WordBytes |-> 255 - x[i]], GoInt(1))

\* The bytes i..1 of x, read as a number without sign, modulo d.
RECURSIVE ModBytes(_, _, _)
ModBytes(x, i, d) ==
    IF i > WordBytes THEN 0 ELSE (ModBytes(x, i + 1, d) * 256 + x[i]) % d

\* Mutant of Rem: the remainder is never negative.
Rem_Floor(x, d) ==
    IF Negative(x) THEN (d - ModBytes(IntNeg(x), 1, d)) % d
    ELSE ModBytes(x, 1, d)

\* x % d of Go for d > 0: the remainder of the division that truncates, so it
\* has the sign of x (-7 % 100 is -7).
Rem(x, d) ==
    IF Negative(x) THEN 0 - ModBytes(IntNeg(x), 1, d)
    ELSE ModBytes(x, 1, d)

\* x % 2 of Go: the remainder has the sign of x (-3 % 2 is -1).
Rem2(x) == IF x[1] % 2 = 0 THEN 0 ELSE IF Negative(x) THEN -1 ELSE 1

\* ------------------------------------------------------------------ task
OperationSum == 0
OperationMultiply == 1
OperationSquare == 2
OperationFilter == 3

\* Value of a Result: interface{} holding nil, an int or an []int.  A slice is
\* its backing array (named by the variable that allocated it) and elements.
Nil == [type |-> "nil"]
IntValue(x) == [type |-> "int", val |-> x]
Slice(arr, elems) == [type |-> "[]int", arr |-> arr, elems |-> elems]

\* for _, v := range t.Data { sum += v }
RECURSIVE SumLoop(_, _, _)
SumLoop(data, i, sum) ==
    IF i > Len(data) THEN sum
    ELSE SumLoop(data, i + 1, IntAdd(sum, data[i]))

\* for _, v := range t.Data { product *= v }
RECURSIVE MultiplyLoop(_, _, _)
MultiplyLoop(data, i, product) ==
    IF i > Len(data) THEN product
    ELSE MultiplyLoop(data, i + 1, IntMul(product, data[i]))

\* for i, v := range t.Data { squares[i] = v * v }
RECURSIVE SquareLoop(_, _, _)
SquareLoop(data, i, squares) ==
    IF i > Len(data) THEN squares
    ELSE SquareLoop(data, i + 1, [squares EXCEPT ![i] = IntMul(data[i], data[i])])

\* Mutant of FilterLoop: the test is v%2 != 1, which lets negative odd values
\* through.
FilterLoop_NotOne(data, i, filtered) ==
    SelectSeq(data, LAMBDA v : Rem2(v) # 1)

\* for _, v := range t.Data { if v%2 == 0 { filtered = append(filtered, v) } }
RECURSIVE FilterLoop(_, _, _)
FilterLoop(data, i, filtered) ==
    IF i > Len(data) THEN filtered
    ELSE FilterLoop(data, i + 1,
                    IF Rem2(data[i]) = 0 THEN Append(filtered, data[i])
                    ELSE filtered)

\* Each case of the switch gives the task as it leaves it, the value and the
\* info (the format of fmt.Sprintf with its arguments).
ProcessSum(t) ==
    [task |-> t,
     value |-> IntValue(SumLoop(t.Data.elems, 1, GoInt(0))),
     info |-> <<"Sum of %d numbers", Len(t.Data.elems)>>]

\* Mutant of ProcessMultiply: the product starts from 0.
ProcessMultiply_FromZero(t) ==
    [task |-> t,
     value |-> IntValue(MultiplyLoop(t.Data.elems, 1, GoInt(0))),
     info |-> <<"Product of %d numbers", Len(t.Data.elems)>>]

ProcessMultiply(t) ==
    [task |-> t,
     value |-> IntValue(MultiplyLoop(t.Data.elems, 1, GoInt(1))),
     info |-> <<"Product of %d numbers", Len(t.Data.elems)>>]

\* Mutant of ProcessSquare: the squares are written into t.Data itself.
ProcessSquare_InPlace(t) ==
    LET squares == SquareLoop(t.Data.elems, 1, t.Data.elems)
    IN [task |-> [t EXCEPT !.Data.elems = squares],
        value |-> Slice(t.Data.arr, squares),
        info |-> <<"Squared %d numbers", Len(t.Data.elems)>>]

\* squares := make([]int, len(t.Data)): a new array of zeroes
ProcessSquare(t) ==
    LET squares == [i \in 1..Len(t.Data.elems) |-> GoInt(0)]
    IN [task |-> t,
        value |-> Slice("squares", SquareLoop(t.Data.elems, 1, squares)),
        info |-> <<"Squared %d numbers", Len(t.Data.elems)>>]

\* filtered := []int{}: a new, empty slice
ProcessFilter(t) ==
    LET filtered == FilterLoop(t.Data.elems, 1, <<>>)
    IN [task |-> t,
        value |-> Slice("filtered", filtered),
        info |-> <<"Filtered %d even numbers from %d", Len(filtered),
                   Len(t.Data.elems)>>]

\* Mutant of ProcessDefault: the unknown tag yields the zero int and no info.
ProcessDefault_Zero(t) ==
    [task |-> t, value |-> IntValue(GoInt(0)), info |-> <<"">>]

\* default: value = nil; info = "Unknown operation"
ProcessDefault(t) ==
    [task |-> t, value |-> Nil, info |-> <<"Unknown operation">>]

\* func (t *Task) Process() *Result: the task as the call leaves it and the
\* Result it returns.
Process(t) ==
    LET out == CASE t.Operation = OperationSum -> ProcessSum(t)
                 [] t.Operation = OperationMultiply -> ProcessMultiply(t)
                 [] t.Operation = OperationSquare -> ProcessSquare(t)
                 [] t.Operation = OperationFilter -> ProcessFilter(t)
                 [] OTHER -> ProcessDefault(t)
    IN [task |-> out.task,
        result |-> [TaskID |-> out.task.ID, Value |-> out.value, Info |-> out.info]]

\* func NewTask(id, dataSize, op): data[i] = (i*7 + id*3) % 100, in the
\* arithmetic of Go ints; id is a Go int, element i of the code is elems[i + 1].
NewTask(id, dataSize, op) ==
    [ID |-> id,
     Data |-> [arr |-> "t.Data",
               elems |-> [i \in 1..dataSize |->
                    GoInt(Rem(IntAdd(IntMul(GoInt(i - 1), GoInt(7)),
                                     IntMul(id, GoInt(3))), 100))]],
     Operation |-> op]

\* The tasks handed to the pool: task id carries the data NewTask gives it and
\* the operation tags in turn, beginning with the first tag after Filter, which
\* Process does not know. The pool's tasks keep their ID as the number id.
PoolTasks ==
    [id \in 0..NumTasks |->
        [NewTask(GoInt(id), DataSize, (id + OperationFilter) % (OperationFilter + 2))
            EXCEPT !.ID = id]]
PoolTask(id) == PoolTasks[id]

NoTask == [ID |-> 0]

RECURSIVE SumLen(_)
SumLen(S) == IF S = {} THEN 0
             ELSE LET p == CHOOSE x \in S : TRUE
                  IN (phi[p] - plo[p] + 1) + SumLen(S \ {p})

\* Producers whose ProcessTasks call has run to its end, and their task count.
Returned == {p \in Producers : ppc[p] = "returned"}
Accepted == SumLen(Returned)
\* No ProcessTasks call is under way.
Quiet == \A p \in Producers : ppc[p] \in {"idle", "returned"}

\* What the first call of Stop() finds: whether a ProcessTasks call is under
\* way, and how many tasks the calls that have returned had been given.
NotStopped == [called |-> FALSE, quiet |-> FALSE, accepted |-> 0]
StopSnapshot == IF atStop.called THEN atStop
                ELSE [called |-> TRUE, quiet |-> Quiet, accepted |-> Accepted]

LiveWorkers == Cardinality({w \in Workers : wpc[w] \notin {"none", "done"}})
LiveHelpers == Cardinality({t \in Tasks : helper[t] = "live"})
LiveBackground == (IF mon \in {"select", "held"} THEN 1 ELSE 0)
                  + (IF smp \in {"select", "held"} THEN 1 ELSE 0)
LiveActivities == LiveWorkers + LiveHelpers + LiveBackground

\* A panic that no goroutine recovers aborts the process: every goroutine and
\* the pool's memory are gone.  Only the calls made so far stay on record.
Panic(kind) ==
    /\ fault' = kind
    /\ taskQueue' = <<>>
    /\ closed' = FALSE
    /\ ctxDone' = FALSE
    /\ results' = <<>>
    /\ mu' = MuFree
    /\ wg' = 0
    /\ nworkers' = -1
    /\ wpc' = [w \in Workers |-> "none"]
    /\ wcur' = [w \in Workers |-> 0]
    /\ helper' = [t \in Tasks |-> "none"]
    /\ mon' = "none"
    /\ smp' = "none"
    /\ plo' = [p \in Producers |-> 1]
    /\ phi' = [p \in Producers |-> 0]
    /\ pnext' = [p \in Producers |-> 1]
    /\ nextId' = 1
    /\ atStop' = NotStopped
    /\ tasksProcessed' = 0
    /\ enqueued' = 0
    /\ dequeued' = 0
    /\ UNCHANGED poolConst

\* ---------------------------------------------------------------- Init
NewBadWorker ==
    /\ design = "bad"
    /\ cap = 0
    /\ ctxDone = FALSE

NewOptimizedWorker(expectedTasks) ==
    /\ design = "optimized"
    /\ cap = expectedTasks
    /\ ctxDone = FALSE

\* The fields of a pool just constructed, with no call made on it yet.
Fresh ==
    /\ taskQueue = <<>>
    /\ closed = FALSE
    /\ results = <<>>
    /\ mu = MuFree
    /\ wg = 0
    /\ nworkers = -1
    /\ wpc = [w \in Workers |-> "none"]
    /\ wcur = [w \in Workers |-> 0]
    /\ helper = [t \in Tasks |-> "none"]
    /\ mon = "none"
    /\ smp = "none"
    /\ ppc = [p \in Producers |-> "idle"]
    /\ plo = [p \in Producers |-> 1]
    /\ phi = [p \in Producers |-> 0]
    /\ pnext = [p \in Producers |-> 1]
    /\ nextId = 1
    /\ spc = [s \in Stoppers |-> "idle"]
    /\ atStop = NotStopped
    /\ tasksProcessed = 0
    /\ enqueued = 0
    /\ dequeued = 0
    /\ fault = NoFault
    /\ gpc = [r \in Readers |-> "idle"]
    /\ gret = [r \in Readers |-> <<>>]
    /\ gseen = [r \in Readers |-> <<>>]
    /\ gafter = [r \in Readers |-> FALSE]

\* []int{}: empty, no backing array
EmptySlice == [arr |-> 0, len |-> 0, store |-> <<>>]

\* No helperTask goroutine is looked at on its own.
HelperIdle ==
    /\ hpc = "none" /\ hid = 0
    /\ checkData = EmptySlice
    /\ hi = 0 /\ hticks = 0 /\ hallocs = 0

\* No collectMetrics arithmetic is looked at on its own.
MetricsIdle ==
    /\ memStats = Nil /\ m = Nil
    /\ lastTotalAlloc = Nil /\ lastNumGC = Nil
    /\ TotalAllocations = Nil /\ GCRuns = Nil
    /\ reads = <<>>
    /\ advances = 0

\* No WorkerController.
ControllerIdle ==
    /\ maxWorker = 0
    /\ startpc = "none"
    /\ messages = <<>> /\ msgClosed = FALSE
    /\ cpc = <<>> /\ ccur = <<>>
    /\ pm = <<>> /\ received = <<>>
    /\ sent = 0
    /\ body = <<>> /\ output = <<>>

\* No request to /goroutine-leak.
LeakIdle ==
    leak = [pc |-> "none", i |-> 0, ctx |-> FALSE, wg |-> 0, go |-> <<>>,
            fired |-> <<>>, resp |-> ""]

\* No benchmark runs.
BenchIdle ==
    mixed = [bench |-> "none", data |-> <<>>, mu |-> {}, pc |-> <<>>,
             left |-> 0, reads |-> 0, writes |-> 0]

\* No request to /publish/:number.
PublishIdle ==
    publish = [number |-> "none", pc |-> "none", numberInt |-> 0, done |-> 0,
               calls |-> <<>>, resp |-> <<>>]

\* No call of NewTask on its own.
NoArgs == [id |-> "none"]
NewTaskIdle == call = [args |-> NoArgs, made |-> NoTask]

\* No call of GenerateStats.
StatsIdle == gen = [dna |-> 0 - 1, pc |-> "none", stats |-> <<>>]

AppsIdle == LeakIdle /\ BenchIdle /\ PublishIdle /\ NewTaskIdle /\ StatsIdle

Init ==
    /\ (NewBadWorker \/ \E k \in 0..MaxCap : NewOptimizedWorker(k))
    /\ Fresh
    /\ task = NoTask
    /\ calls = <<>>
    /\ HelperIdle /\ MetricsIdle /\ ControllerIdle /\ AppsIdle

\* Mutant of OptStart: monitor and collectMetrics are started without
\* w.wg.Add(1), as BadWorker starts them.
OptStart_WorkersOnly(n) ==
    /\ Running /\ design = "optimized"
    /\ nworkers = -1
    /\ \A s \in Stoppers : spc[s] = "idle"
    /\ nworkers' = n
    /\ wpc' = [w \in Workers |-> IF w <= n THEN "recv" ELSE "none"]
    /\ mon' = "select"
    /\ smp' = "select"
    /\ wg' = wg + n
    /\ UNCHANGED <<poolConst, chanVars, ctxDone, results, mu, wcur, helper,
                   prodVars, stopVars, tasksProcessed, fault>>

\* ------------------------------------------------- OptimizedWorker: Start
\* for i < numWorkers { wg.Add(1); go worker(i) }; wg.Add(1); go monitor();
\* wg.Add(1); go collectMetrics().  Start is called once, on a pool that has not
\* been stopped.
OptStart(n) ==
    /\ Running /\ design = "optimized"
    /\ nworkers = -1
    /\ \A s \in Stoppers : spc[s] = "idle"
    /\ nworkers' = n
    /\ wpc' = [w \in Workers |-> IF w <= n THEN "recv" ELSE "none"]
    /\ mon' = "select"
    /\ smp' = "select"
    /\ wg' = wg + n + 2
    /\ UNCHANGED <<poolConst, chanVars, ctxDone, results, mu, wcur, helper,
                   prodVars, stopVars, tasksProcessed, fault>>

\* ------------------------------------------------ OptimizedWorker: worker
\* select: case <-w.ctx.Done(): return   (deferred wg.Done)
OptWorkerCtxDone(w) ==
    /\ Running /\ design = "optimized"
    /\ wpc[w] = "recv"
    /\ ctxDone
    /\ wpc' = [wpc EXCEPT ![w] = "done"]
    /\ wg' = wg - 1
    /\ UNCHANGED <<poolConst, chanVars, ctxDone, results, mu, nworkers, wcur,
                   helper, bgVars, prodVars, stopVars, tasksProcessed, fault>>

\* Mutant of OptWorkerRecv: the task is read but stays in the queue, so a
\* second receive delivers it again.
OptWorkerRecv_Peek(w) ==
    /\ Running /\ design = "optimized"
    /\ wpc[w] = "recv"
    /\ taskQueue # <<>>
    /\ wcur' = [wcur EXCEPT ![w] = Head(taskQueue)]
    /\ dequeued' = dequeued + 1
    /\ wpc' = [wpc EXCEPT ![w] = "process"]
    /\ UNCHANGED <<poolConst, taskQueue, closed, enqueued, ctxDone, results,
                   mu, wg, nworkers, helper, bgVars, prodVars, stopVars,
                   tasksProcessed, fault>>

\* Mutant of OptWorkerRecv: the receive takes the task sent last.
OptWorkerRecv_Last(w) ==
    /\ Running /\ design = "optimized"
    /\ wpc[w] = "recv"
    /\ taskQueue # <<>>
    /\ wcur' = [wcur EXCEPT ![w] = taskQueue[Len(taskQueue)]]
    /\ taskQueue' = SubSeq(taskQueue, 1, Len(taskQueue) - 1)
    /\ dequeued' = dequeued + 1
    /\ wpc' = [wpc EXCEPT ![w] = "process"]
    /\ UNCHANGED <<poolConst, closed, enqueued, ctxDone, results, mu, wg,
                   nworkers, helper, bgVars, prodVars, stopVars,
                   tasksProcessed, fault>>

\* select: case t, ok := <-w.taskQueue with a buffered task (ok = true, also
\* after close while the buffer is not empty).
OptWorkerRecv(w) ==
    /\ Running /\ design = "optimized"
    /\ wpc[w] = "recv"
    /\ taskQueue # <<>>
    /\ wcur' = [wcur EXCEPT ![w] = Head(taskQueue)]
    /\ taskQueue' = Tail(taskQueue)
    /\ dequeued' = dequeued + 1
    /\ wpc' = [wpc EXCEPT ![w] = "process"]
    /\ UNCHANGED <<poolConst, closed, enqueued, ctxDone, results, mu, wg,
                   nworkers, helper, bgVars, prodVars, stopVars,
                   tasksProcessed, fault>>

\* Mutant of OptWorkerClosed: ok is not tested, so the zero value received
\* from the closed channel is processed as a task.
OptWorkerClosed_NoOkTest(w) ==
    /\ Running /\ design = "optimized"
    /\ wpc[w] = "recv"
    /\ closed /\ taskQueue = <<>>
    /\ wcur' = [wcur EXCEPT ![w] = 0]
    /\ wpc' = [wpc EXCEPT ![w] = "process"]
    /\ UNCHANGED <<poolConst, chanVars, ctxDone, results, mu, wg, nworkers,
                   helper, bgVars, prodVars, stopVars, tasksProcessed, fault>>

\* select: case t, ok := <-w.taskQueue on the closed and drained channel:
\* if !ok { return }   (deferred wg.Done)
OptWorkerClosed(w) ==
    /\ Running /\ design = "optimized"
    /\ wpc[w] = "recv"
    /\ closed /\ taskQueue = <<>>
    /\ wpc' = [wpc EXCEPT ![w] = "done"]
    /\ wg' = wg - 1
    /\ UNCHANGED <<poolConst, chanVars, ctxDone, results, mu, nworkers, wcur,
                   helper, bgVars, prodVars, stopVars, tasksProcessed, fault>>

\* result := t.Process(); TasksProcessed...Inc()
OptWorkerProcess(w) ==
    /\ Running /\ design = "optimized"
    /\ wpc[w] = "process"
    /\ tasksProcessed' = tasksProcessed + 1
    /\ wpc' = [wpc EXCEPT ![w] = "lock"]
    /\ UNCHANGED <<poolConst, chanVars, ctxDone, results, mu, wg, nworkers,
                   wcur, helper, bgVars, prodVars, stopVars, fault>>

\* Mutant of OptWorkerLock: the worker goes on without waiting for the mutex.
OptWorkerLock_Barge(w) ==
    /\ Running /\ design = "optimized"
    /\ wpc[w] = "lock"
    /\ mu' = MuWorker(w)
    /\ wpc' = [wpc EXCEPT ![w] = "held"]
    /\ UNCHANGED <<poolConst, chanVars, ctxDone, results, wg, nworkers, wcur,
                   helper, bgVars, prodVars, stopVars, tasksProcessed, fault>>

\* w.mu.Lock()
OptWorkerLock(w) ==
    /\ Running /\ design = "optimized"
    /\ wpc[w] = "lock"
    /\ mu = MuFree
    /\ mu' = MuWorker(w)
    /\ wpc' = [wpc EXCEPT ![w] = "held"]
    /\ UNCHANGED <<poolConst, chanVars, ctxDone, results, wg, nworkers, wcur,
                   helper, bgVars, prodVars, stopVars, tasksProcessed, fault>>

\* w.results = append(w.results, result); w.mu.Unlock()
OptWorkerAppend(w) ==
    /\ Running /\ design = "optimized"
    /\ wpc[w] = "held"
    /\ mu = MuWorker(w)
    /\ results' = Append(results, Process(PoolTask(wcur[w])).result)
    /\ mu' = MuFree
    /\ wpc' = [wpc EXCEPT ![w] = "spawn"]
    /\ UNCHANGED <<poolConst, chanVars, ctxDone, wg, nworkers, wcur, helper,
                   bgVars, prodVars, stopVars, tasksProcessed, fault>>

\* Mutant of OptWorkerSpawn: the helper is launched without w.wg.Add(1), as
\* BadWorker launches it.
OptWorkerSpawn_NoAdd(w) ==
    /\ Running /\ design = "optimized"
    /\ wpc[w] = "spawn"
    /\ helper' = [helper EXCEPT ![wcur[w]] = "live"]
    /\ wcur' = [wcur EXCEPT ![w] = 0]
    /\ wpc' = [wpc EXCEPT ![w] = "recv"]
    /\ UNCHANGED <<poolConst, chanVars, ctxDone, results, mu, wg, nworkers,
                   bgVars, prodVars, stopVars, tasksProcessed, fault>>

\* w.wg.Add(1); go w.helperTask(t.ID); back to the select
OptWorkerSpawn(w) ==
    /\ Running /\ design = "optimized"
    /\ wpc[w] = "spawn"
    /\ wg' = wg + 1
    /\ helper' = [helper EXCEPT ![wcur[w]] = "live"]
    /\ wcur' = [wcur EXCEPT ![w] = 0]
    /\ wpc' = [wpc EXCEPT ![w] = "recv"]
    /\ UNCHANGED <<poolConst, chanVars, ctxDone, results, mu, nworkers, bgVars,
                   prodVars, stopVars, tasksProcessed, fault>>

\* -------------------------------------------- OptimizedWorker: helperTask
\* select: case <-w.ctx.Done(): return   (deferred wg.Done)
OptHelperCtxDone(t) ==
    /\ Running /\ design = "optimized"
    /\ helper[t] = "live"
    /\ ctxDone
    /\ helper' = [helper EXCEPT ![t] = "done"]
    /\ wg' = wg - 1
    /\ UNCHANGED <<poolConst, chanVars, ctxDone, results, mu, nworkers,
                   workerVars, bgVars, prodVars, stopVars, tasksProcessed, fault>>

\* ----------------------------------------------- OptimizedWorker: monitor
OptMonitorCtxDone ==
    /\ Running /\ design = "optimized"
    /\ mon = "select"
    /\ ctxDone
    /\ mon' = "done"
    /\ wg' = wg - 1
    /\ UNCHANGED <<poolConst, chanVars, ctxDone, results, mu, nworkers,
                   workerVars, helper, smp, prodVars, stopVars, tasksProcessed,
                   fault>>

\* case <-ticker.C: w.mu.Lock()
OptMonitorTick ==
    /\ Running /\ design = "optimized"
    /\ mon = "select"
    /\ mu = MuFree
    /\ mu' = MuMonitor
    /\ mon' = "held"
    /\ UNCHANGED <<poolConst, chanVars, ctxDone, results, wg, nworkers,
                   workerVars, helper, smp, prodVars, stopVars, tasksProcessed,
                   fault>>

\* count := len(w.results); w.mu.Unlock(); the rest of the tick is local
OptMonitorUnlock ==
    /\ Running /\ design = "optimized"
    /\ mon = "held"
    /\ mu = MuMonitor
    /\ mu' = MuFree
    /\ mon' = "select"
    /\ UNCHANGED <<poolConst, chanVars, ctxDone, results, wg, nworkers,
                   workerVars, helper, smp, prodVars, stopVars, tasksProcessed,
                   fault>>

\* ---------------------------------------- OptimizedWorker: collectMetrics
OptMetricsCtxDone ==
    /\ Running /\ design = "optimized"
    /\ smp = "select"
    /\ ctxDone
    /\ smp' = "done"
    /\ wg' = wg - 1
    /\ UNCHANGED <<poolConst, chanVars, ctxDone, results, mu, nworkers,
                   workerVars, helper, mon, prodVars, stopVars, tasksProcessed,
                   fault>>

\* case <-ticker.C: runtime metrics (local), then w.mu.Lock()
OptMetricsTick ==
    /\ Running /\ design = "optimized"
    /\ smp = "select"
    /\ mu = MuFree
    /\ mu' = MuSampler
    /\ smp' = "held"
    /\ UNCHANGED <<poolConst, chanVars, ctxDone, results, wg, nworkers,
                   workerVars, helper, mon, prodVars, stopVars, tasksProcessed,
                   fault>>

\* queueSize := len(w.taskQueue); w.mu.Unlock()
OptMetricsUnlock ==
    /\ Running /\ design = "optimized"
    /\ smp = "held"
    /\ mu = MuSampler
    /\ mu' = MuFree
    /\ smp' = "select"
    /\ UNCHANGED <<poolConst, chanVars, ctxDone, results, wg, nworkers,
                   workerVars, helper, mon, prodVars, stopVars, tasksProcessed,
                   fault>>

\* ------------------------------------------ OptimizedWorker: ProcessTasks
\* A caller enters ProcessTasks with the next n fresh tasks (n = 0: the loop
\* body never runs and the call returns).  Callers are interchangeable: caller
\* p enters after caller p-1.
OptProcessTasks(p, n) ==
    /\ Running /\ design = "optimized"
    /\ ppc[p] = "idle"
    /\ IF p = 1 THEN TRUE ELSE ppc[p - 1] # "idle"
    /\ nextId + n - 1 <= NumTasks
    /\ plo' = [plo EXCEPT ![p] = nextId]
    /\ phi' = [phi EXCEPT ![p] = nextId + n - 1]
    /\ pnext' = [pnext EXCEPT ![p] = nextId]
    /\ nextId' = nextId + n
    /\ ppc' = [ppc EXCEPT ![p] = IF n = 0 THEN "returned" ELSE "send"]
    /\ UNCHANGED <<poolConst, chanVars, ctxDone, results, mu, wg, nworkers,
                   workerVars, helper, bgVars, stopVars, tasksProcessed, fault>>

\* Mutant of OptProcessTasksSend: the buffer holds one task less than the
\* capacity asked for.
OptProcessTasksSend_OneLess(p) ==
    /\ Running /\ design = "optimized"
    /\ ppc[p] = "send"
    /\ ~closed
    /\ Len(taskQueue) + 1 < cap
    /\ taskQueue' = Append(taskQueue, pnext[p])
    /\ enqueued' = enqueued + 1
    /\ pnext' = [pnext EXCEPT ![p] = pnext[p] + 1]
    /\ ppc' = [ppc EXCEPT ![p] = IF pnext[p] = phi[p] THEN "returned" ELSE "send"]
    /\ UNCHANGED <<poolConst, closed, dequeued, ctxDone, results, mu, wg,
                   nworkers, workerVars, helper, bgVars, plo, phi, nextId,
                   stopVars, tasksProcessed, fault>>

\* select: case w.taskQueue <- t  into free buffer space; after the last task
\* the loop ends and the call returns.
OptProcessTasksSend(p) ==
    /\ Running /\ design = "optimized"
    /\ ppc[p] = "send"
    /\ ~closed
    /\ Len(taskQueue) < cap
    /\ taskQueue' = Append(taskQueue, pnext[p])
    /\ enqueued' = enqueued + 1
    /\ pnext' = [pnext EXCEPT ![p] = pnext[p] + 1]
    /\ ppc' = [ppc EXCEPT ![p] = IF pnext[p] = phi[p] THEN "returned" ELSE "send"]
    /\ UNCHANGED <<poolConst, closed, dequeued, ctxDone, results, mu, wg,
                   nworkers, workerVars, helper, bgVars, plo, phi, nextId,
                   stopVars, tasksProcessed, fault>>

\* select: case w.taskQueue <- t  handed directly to a worker waiting in its
\* select on the empty channel (the only way through an unbuffered channel).
\* One of the two is parked in its select when the other arrives; cancel()
\* wakes a parked select with its ctx.Done case, and a select entered after
\* cancel() does not park, so no hand-over happens once the context is done.
OptProcessTasksHandoff(p, w) ==
    /\ Running /\ design = "optimized"
    /\ ppc[p] = "send"
    /\ ~closed /\ ~ctxDone
    /\ taskQueue = <<>>
    /\ wpc[w] = "recv"
    /\ wcur' = [wcur EXCEPT ![w] = pnext[p]]
    /\ wpc' = [wpc EXCEPT ![w] = "process"]
    /\ enqueued' = enqueued + 1
    /\ dequeued' = dequeued + 1
    /\ pnext' = [pnext EXCEPT ![p] = pnext[p] + 1]
    /\ ppc' = [ppc EXCEPT ![p] = IF pnext[p] = phi[p] THEN "returned" ELSE "send"]
    /\ UNCHANGED <<poolConst, taskQueue, closed, ctxDone, results, mu, wg,
                   nworkers, helper, bgVars, plo, phi, nextId, stopVars,
                   tasksProcessed, fault>>

\* Mutant of OptProcessTasksCtxDone: the select has no ctx.Done case, as the
\* send of BadWorker.ProcessTasks has none.
OptProcessTasksCtxDone_Missing(p) ==
    /\ Running /\ design = "optimized"
    /\ ppc[p] = "send"
    /\ FALSE
    /\ UNCHANGED vars

\* select: case <-w.ctx.Done(): return
OptProcessTasksCtxDone(p) ==
    /\ Running /\ design = "optimized"
    /\ ppc[p] = "send"
    /\ ctxDone
    /\ ppc' = [ppc EXCEPT ![p] = "aborted"]
    /\ UNCHANGED <<poolConst, chanVars, ctxDone, results, mu, wg, nworkers,
                   workerVars, helper, bgVars, plo, phi, pnext, nextId,
                   stopVars, tasksProcessed, fault>>

\* select: case w.taskQueue <- t  on the closed channel.  A send on a closed
\* channel is a ready case of a select; when the select picks it the goroutine
\* panics.
OptProcessTasksSendClosed(p) ==
    /\ Running /\ design = "optimized"
    /\ ppc[p] = "send"
    /\ closed
    /\ Panic(SendOnClosed)
    /\ ppc' = [ppc EXCEPT ![p] = "panic"]
    /\ UNCHANGED spc

\* -------------------------------------------------- OptimizedWorker: Stop
\* w.cancel().  The caller's snapshot records what ProcessTasks had accepted
\* when Stop was called.  Callers are interchangeable: s calls after s-1.
OptStopCancel(s) ==
    /\ Running /\ design = "optimized"
    /\ spc[s] = "idle"
    /\ IF s = 1 THEN TRUE ELSE spc[s - 1] # "idle"
    /\ ctxDone' = TRUE
    /\ spc' = [spc EXCEPT ![s] = "close"]
    /\ atStop' = StopSnapshot
    /\ UNCHANGED <<poolConst, chanVars, results, mu, wg, nworkers, workerVars,
                   helper, bgVars, prodVars, tasksProcessed, fault>>

\* close(w.taskQueue): closing a closed channel panics.
OptStopClose(s) ==
    /\ Running /\ design = "optimized"
    /\ spc[s] = "close"
    /\ IF closed
       THEN /\ Panic(CloseOfClosed)
            /\ spc' = [spc EXCEPT ![s] = "panic"]
            /\ UNCHANGED ppc
       ELSE /\ closed' = TRUE
            /\ spc' = [spc EXCEPT ![s] = "wait"]
            /\ UNCHANGED <<poolConst, taskQueue, enqueued, dequeued, ctxDone,
                           results, mu, wg, nworkers, workerVars, helper,
                           bgVars, prodVars, atStop, tasksProcessed, fault>>

\* w.wg.Wait() returns when the counter is zero.
OptStopWait(s) ==
    /\ Running /\ design = "optimized"
    /\ spc[s] = "wait"
    /\ wg = 0
    /\ spc' = [spc EXCEPT ![s] = "returned"]
    /\ UNCHANGED <<poolConst, chanVars, ctxDone, results, mu, wg, nworkers,
                   workerVars, helper, bgVars, prodVars, atStop, tasksProcessed,
                   fault>>

\* Mutant of BadStart: the workers are started without w.wg.Add(1).
BadStart_NoAdd(n) ==
    /\ Running /\ design = "bad"
    /\ nworkers = -1
    /\ \A s \in Stoppers : spc[s] = "idle"
    /\ nworkers' = n
    /\ wpc' = [w \in Workers |-> IF w <= n THEN "recv" ELSE "none"]
    /\ mon' = "select"
    /\ smp' = "select"
    /\ UNCHANGED <<poolConst, chanVars, ctxDone, results, mu, wg, wcur, helper,
                   prodVars, stopVars, tasksProcessed, fault>>

\* ======================================================== BadWorker
\* for i < numWorkers { wg.Add(1); go worker(i) }; go monitor();
\* go collectMetrics(): monitor and collectMetrics are not in the wait-group.
BadStart(n) ==
    /\ Running /\ design = "bad"
    /\ nworkers = -1
    /\ \A s \in Stoppers : spc[s] = "idle"
    /\ nworkers' = n
    /\ wpc' = [w \in Workers |-> IF w <= n THEN "recv" ELSE "none"]
    /\ mon' = "select"
    /\ smp' = "select"
    /\ wg' = wg + n
    /\ UNCHANGED <<poolConst, chanVars, ctxDone, results, mu, wcur, helper,
                   prodVars, stopVars, tasksProcessed, fault>>

\* Mutant of BadWorkerClosed: the worker gives up as soon as it finds no
\* task, closed or not.
BadWorkerClosed_Idle(w) ==
    /\ Running /\ design = "bad"
    /\ wpc[w] = "recv"
    /\ taskQueue = <<>>
    /\ wpc' = [wpc EXCEPT ![w] = "done"]
    /\ wg' = wg - 1
    /\ UNCHANGED <<poolConst, chanVars, ctxDone, results, mu, nworkers, wcur,
                   helper, bgVars, prodVars, stopVars, tasksProcessed, fault>>

\* for t := range w.taskQueue ends on the closed channel   (deferred wg.Done)
BadWorkerClosed(w) ==
    /\ Running /\ design = "bad"
    /\ wpc[w] = "recv"
    /\ closed /\ taskQueue = <<>>
    /\ wpc' = [wpc EXCEPT ![w] = "done"]
    /\ wg' = wg - 1
    /\ UNCHANGED <<poolConst, chanVars, ctxDone, results, mu, nworkers, wcur,
                   helper, bgVars, prodVars, stopVars, tasksProcessed, fault>>

\* Mutant of BadWorkerProcess: the task is processed without
\* TasksProcessed...Inc().
BadWorkerProcess_NoInc(w) ==
    /\ Running /\ design = "bad"
    /\ wpc[w] = "process"
    /\ wpc' = [wpc EXCEPT ![w] = "lock"]
    /\ UNCHANGED <<poolConst, chanVars, ctxDone, results, mu, wg, nworkers,
                   wcur, helper, bgVars, prodVars, stopVars, tasksProcessed,
                   fault>>

\* result := t.Process(); TasksProcessed...Inc()
BadWorkerProcess(w) ==
    /\ Running /\ design = "bad"
    /\ wpc[w] = "process"
    /\ tasksProcessed' = tasksProcessed + 1
    /\ wpc' = [wpc EXCEPT ![w] = "lock"]
    /\ UNCHANGED <<poolConst, chanVars, ctxDone, results, mu, wg, nworkers,
                   wcur, helper, bgVars, prodVars, stopVars, fault>>

\* w.mu.Lock()
BadWorkerLock(w) ==
    /\ Running /\ design = "bad"
    /\ wpc[w] = "lock"
    /\ mu = MuFree
    /\ mu' = MuWorker(w)
    /\ wpc' = [wpc EXCEPT ![w] = "held"]
    /\ UNCHANGED <<poolConst, chanVars, ctxDone, results, wg, nworkers, wcur,
                   helper, bgVars, prodVars, stopVars, tasksProcessed, fault>>

\* Mutant of BadWorkerAppend: the Result is put in front of w.results.
BadWorkerAppend_Front(w) ==
    /\ Running /\ design = "bad"
    /\ wpc[w] = "held"
    /\ mu = MuWorker(w)
    /\ results' = <<Process(PoolTask(wcur[w])).result>> \o results
    /\ mu' = MuFree
    /\ wpc' = [wpc EXCEPT ![w] = "spawn"]
    /\ UNCHANGED <<poolConst, chanVars, ctxDone, wg, nworkers, wcur, helper,
                   bgVars, prodVars, stopVars, tasksProcessed, fault>>

\* w.results = append(w.results, result); w.mu.Unlock()
BadWorkerAppend(w) ==
    /\ Running /\ design = "bad"
    /\ wpc[w] = "held"
    /\ mu = MuWorker(w)
    /\ results' = Append(results, Process(PoolTask(wcur[w])).result)
    /\ mu' = MuFree
    /\ wpc' = [wpc EXCEPT ![w] = "spawn"]
    /\ UNCHANGED <<poolConst, chanVars, ctxDone, wg, nworkers, wcur, helper,
                   bgVars, prodVars, stopVars, tasksProcessed, fault>>

\* Mutant of BadWorkerSpawn: the helper launched is one that ends by itself.
BadWorkerSpawn_Ends(w) ==
    /\ Running /\ design = "bad"
    /\ wpc[w] = "spawn"
    /\ helper' = [helper EXCEPT ![wcur[w]] = "done"]
    /\ wcur' = [wcur EXCEPT ![w] = 0]
    /\ wpc' = [wpc EXCEPT ![w] = "recv"]
    /\ UNCHANGED <<poolConst, chanVars, ctxDone, results, mu, wg, nworkers,
                   bgVars, prodVars, stopVars, tasksProcessed, fault>>

\* go w.helperTask(t.ID): not in the wait-group; back to the range
BadWorkerSpawn(w) ==
    /\ Running /\ design = "bad"
    /\ wpc[w] = "spawn"
    /\ helper' = [helper EXCEPT ![wcur[w]] = "live"]
    /\ wcur' = [wcur EXCEPT ![w] = 0]
    /\ wpc' = [wpc EXCEPT ![w] = "recv"]
    /\ UNCHANGED <<poolConst, chanVars, ctxDone, results, mu, wg, nworkers,
                   bgVars, prodVars, stopVars, tasksProcessed, fault>>

\* monitor: case <-ticker.C: w.mu.Lock()   (the select has no other case)
BadMonitorTick ==
    /\ Running /\ design = "bad"
    /\ mon = "select"
    /\ mu = MuFree
    /\ mu' = MuMonitor
    /\ mon' = "held"
    /\ UNCHANGED <<poolConst, chanVars, ctxDone, results, wg, nworkers,
                   workerVars, helper, smp, prodVars, stopVars, tasksProcessed,
                   fault>>

\* count := len(w.results); w.mu.Unlock(); the rest of the tick is local
BadMonitorUnlock ==
    /\ Running /\ design = "bad"
    /\ mon = "held"
    /\ mu = MuMonitor
    /\ mu' = MuFree
    /\ mon' = "select"
    /\ UNCHANGED <<poolConst, chanVars, ctxDone, results, wg, nworkers,
                   workerVars, helper, smp, prodVars, stopVars, tasksProcessed,
                   fault>>

\* collectMetrics: <-ticker.C, runtime metrics (local), then w.mu.Lock()
BadMetricsTick ==
    /\ Running /\ design = "bad"
    /\ smp = "select"
    /\ mu = MuFree
    /\ mu' = MuSampler
    /\ smp' = "held"
    /\ UNCHANGED <<poolConst, chanVars, ctxDone, results, wg, nworkers,
                   workerVars, helper, mon, prodVars, stopVars, tasksProcessed,
                   fault>>

\* queueSize := len(w.taskQueue); w.mu.Unlock()
BadMetricsUnlock ==
    /\ Running /\ design = "bad"
    /\ smp = "held"
    /\ mu = MuSampler
    /\ mu' = MuFree
    /\ smp' = "select"
    /\ UNCHANGED <<poolConst, chanVars, ctxDone, results, wg, nworkers,
                   workerVars, helper, mon, prodVars, stopVars, tasksProcessed,
                   fault>>

\* A caller enters ProcessTasks with the next n fresh tasks.
BadProcessTasks(p, n) ==
    /\ Running /\ design = "bad"
    /\ ppc[p] = "idle"
    /\ IF p = 1 THEN TRUE ELSE ppc[p - 1] # "idle"
    /\ nextId + n - 1 <= NumTasks
    /\ plo' = [plo EXCEPT ![p] = nextId]
    /\ phi' = [phi EXCEPT ![p] = nextId + n - 1]
    /\ pnext' = [pnext EXCEPT ![p] = nextId]
    /\ nextId' = nextId + n
    /\ ppc' = [ppc EXCEPT ![p] = IF n = 0 THEN "returned" ELSE "send"]
    /\ UNCHANGED <<poolConst, chanVars, ctxDone, results, mu, wg, nworkers,
                   workerVars, helper, bgVars, stopVars, tasksProcessed, fault>>

\* Mutant of BadProcessTasksSend: the queue takes the task without a receiver,
\* as a buffered channel would.
BadProcessTasksSend_Buffered(p, w) ==
    /\ Running /\ design = "bad"
    /\ ppc[p] = "send"
    /\ ~closed
    /\ w = 1
    /\ taskQueue' = Append(taskQueue, pnext[p])
    /\ enqueued' = enqueued + 1
    /\ pnext' = [pnext EXCEPT ![p] = pnext[p] + 1]
    /\ ppc' = [ppc EXCEPT ![p] = IF pnext[p] = phi[p] THEN "returned" ELSE "send"]
    /\ UNCHANGED <<poolConst, closed, dequeued, ctxDone, results, mu, wg,
                   nworkers, workerVars, helper, bgVars, plo, phi, nextId,
                   stopVars, tasksProcessed, fault>>

\* w.taskQueue <- t on the unbuffered channel: completes only together with
\* the receive of a worker waiting in its range (for t := range w.taskQueue).
BadProcessTasksSend(p, w) ==
    /\ Running /\ design = "bad"
    /\ ppc[p] = "send"
    /\ ~closed
    /\ wpc[w] = "recv"
    /\ wcur' = [wcur EXCEPT ![w] = pnext[p]]
    /\ wpc' = [wpc EXCEPT ![w] = "process"]
    /\ enqueued' = enqueued + 1
    /\ dequeued' = dequeued + 1
    /\ pnext' = [pnext EXCEPT ![p] = pnext[p] + 1]
    /\ ppc' = [ppc EXCEPT ![p] = IF pnext[p] = phi[p] THEN "returned" ELSE "send"]
    /\ UNCHANGED <<poolConst, taskQueue, closed, ctxDone, results, mu, wg,
                   nworkers, helper, bgVars, plo, phi, nextId, stopVars,
                   tasksProcessed, fault>>

\* Mutant of BadProcessTasksSendClosed: the send on the closed channel is
\* dropped and the call returns.
BadProcessTasksSendClosed_Return(p) ==
    /\ Running /\ design = "bad"
    /\ ppc[p] = "send"
    /\ closed
    /\ ppc' = [ppc EXCEPT ![p] = "returned"]
    /\ UNCHANGED <<poolConst, chanVars, ctxDone, results, mu, wg, nworkers,
                   workerVars, helper, bgVars, plo, phi, pnext, nextId,
                   stopVars, tasksProcessed, fault>>

\* w.taskQueue <- t on the closed channel (also a send that was blocked when
\* the channel was closed): panic.
BadProcessTasksSendClosed(p) ==
    /\ Running /\ design = "bad"
    /\ ppc[p] = "send"
    /\ closed
    /\ Panic(SendOnClosed)
    /\ ppc' = [ppc EXCEPT ![p] = "panic"]
    /\ UNCHANGED spc

\* Stop: close(w.taskQueue); closing a closed channel panics.
BadStopClose(s) ==
    /\ Running /\ design = "bad"
    /\ spc[s] = "idle"
    /\ IF s = 1 THEN TRUE ELSE spc[s - 1] # "idle"
    /\ IF closed
       THEN /\ Panic(CloseOfClosed)
            /\ spc' = [spc EXCEPT ![s] = "panic"]
            /\ UNCHANGED ppc
       ELSE /\ closed' = TRUE
            /\ atStop' = StopSnapshot
            /\ spc' = [spc EXCEPT ![s] = "wait"]
            /\ UNCHANGED <<poolConst, taskQueue, enqueued, dequeued, ctxDone,
                           results, mu, wg, nworkers, workerVars, helper,
                           bgVars, prodVars, tasksProcessed, fault>>

\* Mutant of BadStopWait: Stop() returns without waiting for the counter.
BadStopWait_NoWait(s) ==
    /\ Running /\ design = "bad"
    /\ spc[s] = "wait"
    /\ spc' = [spc EXCEPT ![s] = "returned"]
    /\ UNCHANGED <<poolConst, chanVars, ctxDone, results, mu, wg, nworkers,
                   workerVars, helper, bgVars, prodVars, atStop, tasksProcessed,
                   fault>>

\* Stop: w.wg.Wait() returns when the counter is zero.
BadStopWait(s) ==
    /\ Running /\ design = "bad"
    /\ spc[s] = "wait"
    /\ wg = 0
    /\ spc' = [spc EXCEPT ![s] = "returned"]
    /\ UNCHANGED <<poolConst, chanVars, ctxDone, results, mu, wg, nworkers,
                   workerVars, helper, bgVars, prodVars, atStop, tasksProcessed,
                   fault>>

\* ------------------------------------------------------------------ Next
OptWorkerNext(w) ==
    \/ OptWorkerCtxDone(w)
    \/ OptWorkerRecv(w)
    \/ OptWorkerClosed(w)
    \/ OptWorkerProcess(w)
    \/ OptWorkerLock(w)
    \/ OptWorkerAppend(w)
    \/ OptWorkerSpawn(w)

OptMonitorNext == OptMonitorCtxDone \/ OptMonitorTick \/ OptMonitorUnlock

OptMetricsNext == OptMetricsCtxDone \/ OptMetricsTick \/ OptMetricsUnlock

OptProducerNext(p) ==
    \/ OptProcessTasksSend(p)
    \/ \E w \in Workers : OptProcessTasksHandoff(p, w)
    \/ OptProcessTasksCtxDone(p)
    \/ OptProcessTasksSendClosed(p)

OptStopNext(s) == OptStopClose(s) \/ OptStopWait(s)

BadWorkerNext(w) ==
    \/ BadWorkerClosed(w)
    \/ BadWorkerProcess(w)
    \/ BadWorkerLock(w)
    \/ BadWorkerAppend(w)
    \/ BadWorkerSpawn(w)

BadMonitorNext == BadMonitorTick \/ BadMonitorUnlock

BadMetricsNext == BadMetricsTick \/ BadMetricsUnlock

BadProducerNext(p) ==
    \/ \E w \in Workers : BadProcessTasksSend(p, w)
    \/ BadProcessTasksSendClosed(p)

Next ==
    \/ \E n \in 0..MaxWorkers : OptStart(n)
    \/ \E w \in Workers : OptWorkerNext(w)
    \/ \E t \in Tasks : OptHelperCtxDone(t)
    \/ OptMonitorNext
    \/ OptMetricsNext
    \/ \E p \in Producers : \E n \in 0..NumTasks : OptProcessTasks(p, n)
    \/ \E p \in Producers : OptProducerNext(p)
    \/ \E s \in Stoppers : OptStopCancel(s)
    \/ \E s \in Stoppers : OptStopNext(s)
    \/ \E n \in 0..MaxWorkers : BadStart(n)
    \/ \E w \in Workers : BadWorkerNext(w)
    \/ BadMonitorNext
    \/ BadMetricsNext
    \/ \E p \in Producers : \E n \in 0..NumTasks : BadProcessTasks(p, n)
    \/ \E p \in Producers : BadProducerNext(p)
    \/ \E s \in Stoppers : BadStopClose(s)
    \/ \E s \in Stoppers : BadStopWait(s)

Spec == Init /\ [][Next]_vars

\* ============================================================ GetResults
StopReturned == \E s \in Stoppers : spc[s] = "returned"

\* make([]*task.Result, n): n nil pointers
MakeSlice(n) == [i \in 1..n |-> Nil]

\* copy(dst, src): the first min(len(dst), len(src)) elements of src over dst
CopySlice(dst, src) ==
    [i \in 1..Len(dst) |-> IF i <= Len(src) THEN src[i] ELSE dst[i]]

\* for _, r := range src { dst = append(dst, r) }
RECURSIVE RangeAppend(_, _, _)
RangeAppend(dst, src, i) ==
    IF i > Len(src) THEN dst ELSE RangeAppend(Append(dst, src[i]), src, i + 1)

\* OptimizedWorker.GetResults: w.mu.Lock().  The calls are made one after the
\* other.
OptGetResultsLock(r) ==
    /\ Running /\ design = "optimized"
    /\ gpc[r] = "idle"
    /\ IF r = 1 THEN TRUE ELSE gpc[r - 1] = "returned"
    /\ mu = MuFree
    /\ mu' = MuReader(r)
    /\ gpc' = [gpc EXCEPT ![r] = "held"]
    /\ gseen' = [gseen EXCEPT ![r] = results]
    /\ gafter' = [gafter EXCEPT ![r] = StopReturned]
    /\ UNCHANGED <<design, cap, otherVars, taskVars,
                   gret, chanVars, ctxDone, results, wg,
                   nworkers, workerVars, helper, bgVars, prodVars, stopVars,
                   tasksProcessed, fault>>

\* Mutant of OptGetResults: make([]*task.Result, 0, len(w.results)) gives the
\* copy a capacity but no length, and copy() fills nothing.
OptGetResults_MakeCap(r) ==
    /\ Running /\ design = "optimized"
    /\ gpc[r] = "held"
    /\ mu = MuReader(r)
    /\ gret' = [gret EXCEPT ![r] = CopySlice(MakeSlice(0), results)]
    /\ mu' = MuFree
    /\ gpc' = [gpc EXCEPT ![r] = "returned"]
    /\ UNCHANGED <<design, cap, otherVars, taskVars,
                   gseen, gafter, chanVars, ctxDone,
                   results, wg, nworkers, workerVars, helper, bgVars, prodVars,
                   stopVars, tasksProcessed, fault>>

\* resultCopy := make([]*task.Result, len(w.results));
\* copy(resultCopy, w.results); return resultCopy   (deferred w.mu.Unlock)
OptGetResults(r) ==
    /\ Running /\ design = "optimized"
    /\ gpc[r] = "held"
    /\ mu = MuReader(r)
    /\ gret' = [gret EXCEPT ![r] = CopySlice(MakeSlice(Len(results)), results)]
    /\ mu' = MuFree
    /\ gpc' = [gpc EXCEPT ![r] = "returned"]
    /\ UNCHANGED <<design, cap, otherVars, taskVars,
                   gseen, gafter, chanVars, ctxDone,
                   results, wg, nworkers, workerVars, helper, bgVars, prodVars,
                   stopVars, tasksProcessed, fault>>

\* BadWorker.GetResults: w.mu.Lock()
BadGetResultsLock(r) ==
    /\ Running /\ design = "bad"
    /\ gpc[r] = "idle"
    /\ IF r = 1 THEN TRUE ELSE gpc[r - 1] = "returned"
    /\ mu = MuFree
    /\ mu' = MuReader(r)
    /\ gpc' = [gpc EXCEPT ![r] = "held"]
    /\ gseen' = [gseen EXCEPT ![r] = results]
    /\ gafter' = [gafter EXCEPT ![r] = StopReturned]
    /\ UNCHANGED <<design, cap, otherVars, taskVars,
                   gret, chanVars, ctxDone, results, wg,
                   nworkers, workerVars, helper, bgVars, prodVars, stopVars,
                   tasksProcessed, fault>>

\* resultCopy := []*task.Result{}; for _, r := range w.results
\* { resultCopy = append(resultCopy, r) }; return resultCopy
\* (deferred w.mu.Unlock)
BadGetResults(r) ==
    /\ Running /\ design = "bad"
    /\ gpc[r] = "held"
    /\ mu = MuReader(r)
    /\ gret' = [gret EXCEPT ![r] = RangeAppend(<<>>, results, 1)]
    /\ mu' = MuFree
    /\ gpc' = [gpc EXCEPT ![r] = "returned"]
    /\ UNCHANGED <<design, cap, otherVars, taskVars,
                   gseen, gafter, chanVars, ctxDone,
                   results, wg, nworkers, workerVars, helper, bgVars, prodVars,
                   stopVars, tasksProcessed, fault>>

GetResultsNext(r) ==
    \/ OptGetResultsLock(r)
    \/ OptGetResults(r)
    \/ BadGetResultsLock(r)
    \/ BadGetResults(r)

\* The pool with callers of GetResults: the steps of Next, with the
\* goroutines of ResultsProducers calling ProcessTasks, and the steps of the
\* calls of GetResults.
ResultsProducers == 1..NumResultsProducers

ResultsNext ==
    \/ \E n \in 0..MaxWorkers : OptStart(n)
    \/ \E w \in Workers : OptWorkerNext(w)
    \/ \E t \in Tasks : OptHelperCtxDone(t)
    \/ OptMonitorNext
    \/ OptMetricsNext
    \/ \E p \in ResultsProducers : \E n \in 0..NumTasks : OptProcessTasks(p, n)
    \/ \E p \in ResultsProducers : OptProducerNext(p)
    \/ \E s \in Stoppers : OptStopCancel(s)
    \/ \E s \in Stoppers : OptStopNext(s)
    \/ \E n \in 0..MaxWorkers : BadStart(n)
    \/ \E w \in Workers : BadWorkerNext(w)
    \/ BadMonitorNext
    \/ BadMetricsNext
    \/ \E p \in ResultsProducers : \E n \in 0..NumTasks : BadProcessTasks(p, n)
    \/ \E p \in ResultsProducers : BadProducerNext(p)
    \/ \E s \in Stoppers : BadStopClose(s)
    \/ \E s \in Stoppers : BadStopWait(s)
    \/ \E r \in Readers : GetResultsNext(r)

ResultsSpec == Init /\ [][ResultsNext]_vars

\* ========================================================== Task.Process
\* The tasks Process is applied to: every Data of up to MaxLen elements drawn
\* from DataValues, and the Data of the documented examples; every operation
\* tag from one below Sum to two above Filter.
DataValues == {-3, -2, 0, 1, 65536}
ExampleData == {<<1, 2, 3>>, <<1, 2, 3, 4>>, <<1, 2, 3, 4, 5, 6>>}
TaskData == UNION {[1..n -> DataValues] : n \in 0..MaxLen} \cup ExampleData
OperationTags == (OperationSum - 1)..(OperationFilter + 2)

TaskInit ==
    /\ design = "none"
    /\ cap = 0
    /\ ctxDone = FALSE
    /\ Fresh
    /\ \E id \in Tasks, d \in TaskData, op \in OperationTags :
            task = [ID |-> id,
                    Data |-> [arr |-> "t.Data",
                              elems |-> [i \in 1..Len(d) |-> GoInt(d[i])]],
                    Operation |-> op]
    /\ calls = <<>>
    /\ HelperIdle /\ MetricsIdle /\ ControllerIdle /\ AppsIdle

\* result := t.Process()
CallProcess ==
    /\ task # NoTask
    /\ Len(calls) < MaxCalls
    /\ task' = Process(task).task
    /\ calls' = Append(calls, Process(task).result)
    /\ UNCHANGED <<design, cap, otherVars, getVars,
                   chanVars, ctxDone, results, mu, wg,
                   nworkers, workerVars, helper, bgVars, prodVars, stopVars,
                   tasksProcessed, fault>>

TaskSpec == TaskInit /\ [][CallProcess]_vars

\* ============================================================ helperTask
\* One helperTask goroutine of a pool, with what it keeps between ticks.
CheckCap == 10
CheckLen == 10

\* The fields of the pool that a helperTask goroutine does not touch.
poolOnly == <<cap, chanVars, results, mu, wg, nworkers, workerVars, helper,
              bgVars, prodVars, stopVars, tasksProcessed, fault, getVars,
              taskVars>>
poolFields == <<poolOnly, appVars>>

\* make([]int, n, c) as backing array arr
MakeCap(arr, n, c) == [arr |-> arr, len |-> n, store |-> [i \in 1..c |-> 0]]

\* s[:n]
Reslice(s, n) == [s EXCEPT !.len = n]

\* The capacity append gives a slice of capacity c that must hold n elements:
\* double, or n when double is not enough.
GrowCap(c, n) == IF n > c + c THEN n ELSE c + c

\* append(s, x): in place while the capacity lasts, else into the new backing
\* array arr.
GoAppend(s, x, arr) ==
    IF s.len < Len(s.store)
    THEN [s EXCEPT !.len = s.len + 1, !.store[s.len + 1] = x]
    ELSE [arr |-> arr, len |-> s.len + 1,
          store |-> [i \in 1..GrowCap(Len(s.store), s.len + 1) |->
                        IF i <= s.len THEN s.store[i]
                        ELSE IF i = s.len + 1 THEN x ELSE 0]]

\* The elements of s.
Elems(s) == SubSeq(s.store, 1, s.len)

\* A pool just constructed and one of its helperTask goroutines launched.
HelperInit ==
    /\ (NewBadWorker \/ \E k \in 0..MaxCap : NewOptimizedWorker(k))
    /\ Fresh
    /\ task = NoTask
    /\ calls = <<>>
    /\ MetricsIdle /\ ControllerIdle /\ AppsIdle
    /\ hpc = "start" /\ hid \in Tasks
    /\ checkData = EmptySlice
    /\ hi = 0 /\ hticks = 0 /\ hallocs = 0

\* OptimizedWorker.Stop: w.cancel()
HelperStopCancel ==
    /\ design = "optimized"
    /\ hpc # "none"
    /\ ~ctxDone
    /\ ctxDone' = TRUE
    /\ UNCHANGED <<design, poolFields, helperVars, metricVars, ctlVars>>

\* OptimizedWorker.helperTask: checkData := make([]int, 0, 10); status := ...
OptHelperTask ==
    /\ design = "optimized"
    /\ hpc = "start"
    /\ checkData' = MakeCap(hallocs + 1, 0, CheckCap)
    /\ hallocs' = hallocs + 1
    /\ hpc' = "select"
    /\ UNCHANGED <<design, ctxDone, poolFields, hid, hi, hticks, metricVars,
                   ctlVars>>

\* select: case <-w.ctx.Done(): return
OptHelperDone ==
    /\ design = "optimized"
    /\ hpc = "select"
    /\ ctxDone
    /\ hpc' = "done"
    /\ UNCHANGED <<design, ctxDone, poolFields, hid, checkData, hi, hticks,
                   hallocs, metricVars, ctlVars>>

\* Mutant of OptHelperTick: the tick begins with a new empty slice, as
\* BadWorker's does.
OptHelperTick_NewSlice ==
    /\ design = "optimized"
    /\ hpc = "select"
    /\ hticks < MaxTicks
    /\ checkData' = EmptySlice
    /\ hi' = 0
    /\ hpc' = "loop"
    /\ UNCHANGED <<design, ctxDone, poolFields, hid, hticks, hallocs,
                   metricVars, ctlVars>>

\* select: case <-ticker.C: checkData = checkData[:0]; i := 0
OptHelperTick ==
    /\ design = "optimized"
    /\ hpc = "select"
    /\ hticks < MaxTicks
    /\ checkData' = Reslice(checkData, 0)
    /\ hi' = 0
    /\ hpc' = "loop"
    /\ UNCHANGED <<design, ctxDone, poolFields, hid, hticks, hallocs,
                   metricVars, ctlVars>>

\* for i < 10: checkData = append(checkData, i); i++
OptHelperAppend ==
    /\ design = "optimized"
    /\ hpc = "loop"
    /\ hi < CheckLen
    /\ checkData' = GoAppend(checkData, hi, hallocs + 1)
    /\ hallocs' = IF checkData.len < Len(checkData.store) THEN hallocs
                  ELSE hallocs + 1
    /\ hi' = hi + 1
    /\ UNCHANGED <<design, ctxDone, poolFields, hpc, hid, hticks, metricVars,
                   ctlVars>>

\* the loop ends; status.Checked = time.Now(); back to the select
OptHelperLoopEnd ==
    /\ design = "optimized"
    /\ hpc = "loop"
    /\ hi >= CheckLen
    /\ hticks' = hticks + 1
    /\ hpc' = "select"
    /\ UNCHANGED <<design, ctxDone, poolFields, hid, checkData, hi, hallocs,
                   metricVars, ctlVars>>

\* BadWorker.helperTask: ticker := time.NewTicker(...); for { <-ticker.C
BadHelperTask ==
    /\ design = "bad"
    /\ hpc = "start"
    /\ hpc' = "tick"
    /\ UNCHANGED <<design, ctxDone, poolFields, hid, checkData, hi, hticks,
                   hallocs, metricVars, ctlVars>>

\* <-ticker.C; checkData := []int{}; i := 0
BadHelperTick ==
    /\ design = "bad"
    /\ hpc = "tick"
    /\ hticks < MaxTicks
    /\ checkData' = EmptySlice
    /\ hi' = 0
    /\ hpc' = "loop"
    /\ UNCHANGED <<design, ctxDone, poolFields, hid, hticks, hallocs,
                   metricVars, ctlVars>>

\* for i < 10: checkData = append(checkData, i); i++
BadHelperAppend ==
    /\ design = "bad"
    /\ hpc = "loop"
    /\ hi < CheckLen
    /\ checkData' = GoAppend(checkData, hi, hallocs + 1)
    /\ hallocs' = IF checkData.len < Len(checkData.store) THEN hallocs
                  ELSE hallocs + 1
    /\ hi' = hi + 1
    /\ UNCHANGED <<design, ctxDone, poolFields, hpc, hid, hticks, metricVars,
                   ctlVars>>

\* the loop ends; status := &Status{...}; back to <-ticker.C
BadHelperLoopEnd ==
    /\ design = "bad"
    /\ hpc = "loop"
    /\ hi >= CheckLen
    /\ hticks' = hticks + 1
    /\ hpc' = "tick"
    /\ UNCHANGED <<design, ctxDone, poolFields, hid, checkData, hi, hallocs,
                   metricVars, ctlVars>>

HelperNext ==
    \/ HelperStopCancel
    \/ OptHelperTask
    \/ OptHelperDone
    \/ OptHelperTick
    \/ OptHelperAppend
    \/ OptHelperLoopEnd
    \/ BadHelperTask
    \/ BadHelperTick
    \/ BadHelperAppend
    \/ BadHelperLoopEnd

HelperSpec == HelperInit /\ [][HelperNext]_vars

\* ========================================================= collectMetrics
\* The counters collectMetrics publishes from runtime.MemStats.  Unsigned
\* integers and float64 values are bit sequences, lowest bit first; a float64
\* that holds a whole number is that number, of at most MantissaBits
\* significant bits.
TotalAllocBits == 64
NumGCBits == 32
MantissaBits == 53
FloatBits == TotalAllocBits + MaxSamples

Zero(w) == [i \in 1..w |-> 0]
Pow2(k, w) == [i \in 1..w |-> IF i = k + 1 THEN 1 ELSE 0]

\* x + y on the width of x: the carry out of the top bit is lost.
RECURSIVE AddBits(_, _, _, _)
AddBits(x, y, i, carry) ==
    IF i > Len(x) THEN <<>>
    ELSE LET sum == x[i] + y[i] + carry
         IN <<sum % 2>> \o AddBits(x, y, i + 1, sum \div 2)

UintAdd(x, y) == AddBits(x, y, 1, 0)

\* x - y on the width of x: the borrow out of the top bit is lost.
RECURSIVE SubBits(_, _, _, _)
SubBits(x, y, i, borrow) ==
    IF i > Len(x) THEN <<>>
    ELSE LET d == x[i] - y[i] - borrow
         IN <<(d + 2) % 2>> \o SubBits(x, y, i + 1, IF d < 0 THEN 1 ELSE 0)

UintSub(x, y) == SubBits(x, y, 1, 0)

\* x < y, unsigned
UintLess(x, y) ==
    \E i \in 1..Len(x) :
        /\ x[i] < y[i]
        /\ \A j \in (i + 1)..Len(x) : x[j] = y[j]

\* The position of the highest set bit of x, 0 for zero.
TopBit(x) ==
    IF \A i \in 1..Len(x) : x[i] = 0 THEN 0
    ELSE CHOOSE i \in 1..Len(x) : x[i] = 1 /\ \A j \in (i + 1)..Len(x) : x[j] = 0

\* The whole number x as the nearest float64, ties to the even mantissa.
RoundFloat(x) ==
    IF TopBit(x) <= MantissaBits THEN x
    ELSE LET cut == TopBit(x) - MantissaBits
             kept == [i \in 1..Len(x) |-> IF i <= cut THEN 0 ELSE x[i]]
             half == x[cut] = 1
             more == \E i \in 1..(cut - 1) : x[i] = 1
             odd == x[cut + 1] = 1
         IN IF half /\ (more \/ odd) THEN UintAdd(kept, Pow2(cut, Len(x))) ELSE kept

\* The whole number x on the FloatBits of the model's float64 values.
Exact(x) == [i \in 1..FloatBits |-> IF i <= Len(x) THEN x[i] ELSE 0]

\* float64(x)
Float64(x) == RoundFloat(Exact(x))

\* Counter.Add(v): the float64 sum
CounterAdd(c, v) == RoundFloat(UintAdd(c, v))

\* if cur > last { counter.Add(float64(cur - last)); last = cur }: the counter
\* and last after it.
Track(counter, last, cur) ==
    IF UintLess(last, cur)
    THEN [counter |-> CounterAdd(counter, Float64(UintSub(cur, last))), last |-> cur]
    ELSE [counter |-> counter, last |-> last]

\* Steps of the runtime's counters between two readings: one byte or one
\* cycle, or as many as reach the limits of float64 and of uint32.
AllocSteps == {Pow2(0, TotalAllocBits), Pow2(MantissaBits, TotalAllocBits)}
GCSteps == {Pow2(0, NumGCBits), Pow2(NumGCBits - 1, NumGCBits)}

Designs == {"bad", "optimized"}

\* A pool just constructed, the process's counters at zero, collectMetrics
\* launched: var lastNumGC uint32; var lastTotalAlloc uint64.
MetricsInit ==
    /\ (NewBadWorker \/ \E k \in 0..MaxCap : NewOptimizedWorker(k))
    /\ Fresh
    /\ task = NoTask
    /\ calls = <<>>
    /\ HelperIdle /\ ControllerIdle /\ AppsIdle
    /\ memStats = [TotalAlloc |-> Zero(TotalAllocBits), NumGC |-> Zero(NumGCBits)]
    /\ m = memStats
    /\ lastTotalAlloc = Zero(TotalAllocBits)
    /\ lastNumGC = Zero(NumGCBits)
    /\ TotalAllocations = [d \in Designs |-> Zero(FloatBits)]
    /\ GCRuns = [d \in Designs |-> Zero(FloatBits)]
    /\ reads = <<>>
    /\ advances = 0

\* The program allocates: MemStats.TotalAlloc grows.
RuntimeAlloc(d) ==
    /\ memStats # Nil
    /\ advances < MaxAdvance
    /\ memStats' = [memStats EXCEPT !.TotalAlloc = UintAdd(@, d)]
    /\ advances' = advances + 1
    /\ UNCHANGED <<design, ctxDone, poolFields, helperVars, ctlVars, m,
                   lastTotalAlloc, lastNumGC, TotalAllocations, GCRuns, reads>>

\* Garbage collections complete: MemStats.NumGC (uint32) grows.
RuntimeGC(d) ==
    /\ memStats # Nil
    /\ advances < MaxAdvance
    /\ memStats' = [memStats EXCEPT !.NumGC = UintAdd(@, d)]
    /\ advances' = advances + 1
    /\ UNCHANGED <<design, ctxDone, poolFields, helperVars, ctlVars, m,
                   lastTotalAlloc, lastNumGC, TotalAllocations, GCRuns, reads>>

\* Mutant of CollectMetricsTick: the deltas are added without the comparisons.
CollectMetricsTick_Always(label) ==
    /\ memStats # Nil
    /\ design = label
    /\ Len(reads) < MaxSamples
    /\ m' = memStats
    /\ reads' = Append(reads, memStats)
    /\ TotalAllocations' =
           [TotalAllocations EXCEPT ![label] =
               CounterAdd(@, Float64(UintSub(memStats.TotalAlloc, lastTotalAlloc)))]
    /\ lastTotalAlloc' = memStats.TotalAlloc
    /\ GCRuns' =
           [GCRuns EXCEPT ![label] =
               CounterAdd(@, Float64(UintSub(memStats.NumGC, lastNumGC)))]
    /\ lastNumGC' = memStats.NumGC
    /\ UNCHANGED <<design, ctxDone, poolFields, helperVars, ctlVars, memStats,
                   advances>>

\* collectMetrics, case <-ticker.C: runtime.ReadMemStats(&m) and the two
\* counters, under the label of the design.  (The gauges are set from the same
\* reading; the queue size is read under w.mu, see OptMetricsLock.)
CollectMetricsTick(label) ==
    /\ memStats # Nil
    /\ design = label
    /\ Len(reads) < MaxSamples
    /\ m' = memStats
    /\ reads' = Append(reads, memStats)
    /\ TotalAllocations' =
           [TotalAllocations EXCEPT ![label] =
               Track(@, lastTotalAlloc, memStats.TotalAlloc).counter]
    /\ lastTotalAlloc' =
           Track(TotalAllocations[label], lastTotalAlloc, memStats.TotalAlloc).last
    /\ GCRuns' =
           [GCRuns EXCEPT ![label] = Track(@, lastNumGC, memStats.NumGC).counter]
    /\ lastNumGC' = Track(GCRuns[label], lastNumGC, memStats.NumGC).last
    /\ UNCHANGED <<design, ctxDone, poolFields, helperVars, ctlVars, memStats,
                   advances>>

MetricsNext ==
    \/ \E d \in AllocSteps : RuntimeAlloc(d)
    \/ \E d \in GCSteps : RuntimeGC(d)
    \/ \E label \in Designs : CollectMetricsTick(label)

MetricsSpec == MetricsInit /\ [][MetricsNext]_vars

\* ===================================================== WorkerController
\* The super-worker's controller: the consumer loops on the messages channel
\* and the processMessage goroutines they launch.
Consumers == 0..(MaxConsumers - 1)
Deliveries == 1..NumDeliveries

\* How a processMessage call ends: published, or one of its error returns.
Outcomes == {"published", "unmarshal error", "marshal error", "publish error"}

\* Bodies a delivery may carry: a Job as /publish sends it, an object without
\* a name, text that is not JSON, a name that is not a string.
Bodies == {"{\"name\":\"abc\"}", "{}", "abc", "{\"name\":1}"}

\* json.Unmarshal(message.Body, &job) returns no error
Decodes(b) == b \in {"{\"name\":\"abc\"}", "{}"}

\* controller.NewWorker(config.MaxWorkers, ...) and the channel of
\* rmq.Consume; MAX_WORKERS is any integer.
ControllerInit ==
    /\ design = "none"
    /\ cap = 0
    /\ ctxDone = FALSE
    /\ Fresh
    /\ task = NoTask
    /\ calls = <<>>
    /\ HelperIdle /\ MetricsIdle /\ AppsIdle
    /\ maxWorker \in (0 - 1)..MaxConsumers
    /\ startpc = "idle"
    /\ messages = <<>> /\ msgClosed = FALSE
    /\ cpc = [c \in Consumers |-> "none"]
    /\ ccur = [c \in Consumers |-> 0]
    /\ pm = [d \in Deliveries |-> <<>>]
    /\ received = [d \in Deliveries |-> 0]
    /\ sent = 0
    /\ body = [d \in Deliveries |-> ""]
    /\ output = <<>>

\* The fields no step of the controller touches.
ctlConst == <<design, ctxDone, poolFields, helperVars, metricVars, maxWorker>>

\* The broker sends the next delivery, with body b, down the channel.
BrokerDeliver(b) ==
    /\ startpc # "none"
    /\ ~msgClosed
    /\ sent < NumDeliveries
    /\ messages' = Append(messages, sent + 1)
    /\ body' = [body EXCEPT ![sent + 1] = b]
    /\ sent' = sent + 1
    /\ UNCHANGED <<ctlConst, startpc, msgClosed, cpc, ccur, pm, received,
                   output>>

\* The AMQP channel goes down (rmq.Close, a lost connection): the messages
\* channel is closed.
MessagesClose ==
    /\ startpc # "none"
    /\ ~msgClosed
    /\ msgClosed' = TRUE
    /\ UNCHANGED <<ctlConst, startpc, messages, cpc, ccur, pm, received, sent,
                   body, output>>

\* Start: for id := range c.maxWorker { go func(workerID int) {...}(id) }
CtlStart ==
    /\ startpc # "none"
    /\ startpc = "idle"
    /\ cpc' = [c \in Consumers |-> IF c < maxWorker THEN "range" ELSE "none"]
    /\ startpc' = "returned"
    /\ UNCHANGED <<ctlConst, messages, msgClosed, ccur, pm, received, sent,
                   body, output>>

\* Mutant of ConsumerRecv: the delivery received stays on the channel.
ConsumerRecv_Peek(c) ==
    /\ cpc[c] = "range"
    /\ messages # <<>>
    /\ ccur' = [ccur EXCEPT ![c] = Head(messages)]
    /\ received' = [received EXCEPT ![Head(messages)] = @ + 1]
    /\ cpc' = [cpc EXCEPT ![c] = "spawn"]
    /\ UNCHANGED <<ctlConst, startpc, messages, msgClosed, pm, sent, body,
                   output>>

\* for m := range messages: a delivery is received
ConsumerRecv(c) ==
    /\ cpc[c] = "range"
    /\ messages # <<>>
    /\ ccur' = [ccur EXCEPT ![c] = Head(messages)]
    /\ messages' = Tail(messages)
    /\ received' = [received EXCEPT ![Head(messages)] = @ + 1]
    /\ cpc' = [cpc EXCEPT ![c] = "spawn"]
    /\ UNCHANGED <<ctlConst, startpc, msgClosed, pm, sent, body, output>>

\* log.Println(...); go c.processMessage(m); back to the range
ConsumerSpawn(c) ==
    /\ cpc[c] = "spawn"
    /\ pm' = [pm EXCEPT ![ccur[c]] = Append(@, "running")]
    /\ ccur' = [ccur EXCEPT ![c] = 0]
    /\ cpc' = [cpc EXCEPT ![c] = "range"]
    /\ UNCHANGED <<ctlConst, startpc, messages, msgClosed, received, sent,
                   body, output>>

\* for m := range messages ends on the closed and drained channel
ConsumerExit(c) ==
    /\ cpc[c] = "range"
    /\ messages = <<>>
    /\ msgClosed
    /\ cpc' = [cpc EXCEPT ![c] = "done"]
    /\ UNCHANGED <<ctlConst, startpc, messages, msgClosed, ccur, pm, received,
                   sent, body, output>>

\* Mutant of ProcessMessage: the error returns are missing, the call goes on
\* to Publish.
ProcessMessage_NoReturn(d, i, marshalOk, publishOk) ==
    /\ startpc # "none"
    /\ i \in DOMAIN pm[d]
    /\ pm[d][i] = "running"
    /\ pm' = [pm EXCEPT ![d][i] =
                 IF ~Decodes(body[d]) THEN "unmarshal error"
                 ELSE IF ~marshalOk THEN "marshal error"
                 ELSE IF ~publishOk THEN "publish error"
                 ELSE "published"]
    /\ output' = IF publishOk THEN Append(output, d) ELSE output
    /\ UNCHANGED <<ctlConst, startpc, messages, msgClosed, cpc, ccur, received,
                   sent, body>>

\* processMessage runs to one of its returns: json.Unmarshal of the body;
\* GeneratePokemon; json.Marshal (marshalOk: it returns no error);
\* c.output.Publish (publishOk: the broker takes the message).
ProcessMessage(d, i, marshalOk, publishOk) ==
    /\ startpc # "none"
    /\ i \in DOMAIN pm[d]
    /\ pm[d][i] = "running"
    /\ pm' = [pm EXCEPT ![d][i] =
                 IF ~Decodes(body[d]) THEN "unmarshal error"
                 ELSE IF ~marshalOk THEN "marshal error"
                 ELSE IF ~publishOk THEN "publish error"
                 ELSE "published"]
    /\ output' = IF Decodes(body[d]) /\ marshalOk /\ publishOk
                 THEN Append(output, d) ELSE output
    /\ UNCHANGED <<ctlConst, startpc, messages, msgClosed, cpc, ccur, received,
                   sent, body>>

ControllerNext ==
    \/ \E b \in Bodies : BrokerDeliver(b)
    \/ MessagesClose
    \/ CtlStart
    \/ \E c \in Consumers : ConsumerRecv(c)
    \/ \E c \in Consumers : ConsumerSpawn(c)
    \/ \E c \in Consumers : ConsumerExit(c)
    \/ \E d \in Deliveries, i \in 1..NumDeliveries, marshalOk, publishOk \in BOOLEAN :
           ProcessMessage(d, i, marshalOk, publishOk)

ControllerSpec == ControllerInit /\ [][ControllerNext]_vars

\* Every goroutine that can take a step eventually takes one (the Go scheduler
\* runs every runnable goroutine).  A select with several ready cases picks one
\* uniformly at random and the mutex hands over to a waiting goroutine, so a
\* case or a Lock that is ready again and again is eventually taken.  Calls of
\* Start, ProcessTasks and Stop are the caller's choice: no fairness.
Fairness ==
    /\ \A w \in Workers : WF_vars(OptWorkerNext(w)) /\ SF_vars(OptWorkerLock(w))
    /\ \A w \in Workers : WF_vars(BadWorkerNext(w)) /\ SF_vars(BadWorkerLock(w))
    /\ \A t \in Tasks : WF_vars(OptHelperCtxDone(t))
    /\ WF_vars(OptMonitorNext) /\ SF_vars(OptMonitorCtxDone)
    /\ WF_vars(OptMetricsNext) /\ SF_vars(OptMetricsCtxDone)
    /\ WF_vars(BadMonitorNext)
    /\ WF_vars(BadMetricsNext)
    /\ \A p \in Producers : WF_vars(OptProducerNext(p))
    /\ \A p \in Producers : WF_vars(BadProducerNext(p))
    /\ \A s \in Stoppers : WF_vars(OptStopNext(s))
    /\ \A s \in Stoppers : WF_vars(BadStopWait(s))

FairSpec == Spec /\ Fairness

\* The same program with nothing assumed but that a goroutine inside
\* BadWorker.ProcessTasks is eventually scheduled.
ProducerFairSpec == Spec /\ \A p \in Producers : WF_vars(BadProducerNext(p))

\* The same program with nothing assumed but that a goroutine inside
\* OptimizedWorker.ProcessTasks is eventually scheduled.
OptProducerFairSpec == Spec /\ \A p \in Producers : WF_vars(OptProducerNext(p))

\* ================================================================ claims
ResultsOf(t) == {i \in DOMAIN results : results[i].TaskID = t}

\* C1: in the optimized design, once Stop() has returned no worker, helper,
\* monitor or sampler of the pool is live.
C1_StopWaitsForAll ==
    (design = "optimized" /\ StopReturned) => LiveActivities = 0

\* C1 witness: Stop() has returned on a pool of two workers that processed
\* every task and launched a helper for each.
C1_Witness ==
    /\ design = "optimized" /\ StopReturned
    /\ nworkers = MaxWorkers
    /\ Len(results) = NumTasks
    /\ \A t \in Tasks : helper[t] = "done"

\* C2 (as claimed): in the optimized design, when every ProcessTasks call had
\* returned before Stop() was called and none was made afterwards, the results
\* hold exactly the accepted tasks once Stop() has returned.
C2_AllAcceptedProcessed ==
    (/\ design = "optimized" /\ StopReturned
     /\ nworkers >= 1
     /\ atStop.called /\ atStop.quiet
     /\ nextId - 1 = atStop.accepted)
    => Len(results) = atStop.accepted

\* C3: in the bad design with at least one worker, when every ProcessTasks call
\* had returned before Stop() was called, the results hold exactly the accepted
\* tasks once Stop() has returned.
C3_BadAllAcceptedProcessed ==
    (/\ design = "bad" /\ StopReturned
     /\ nworkers >= 1
     /\ atStop.called /\ atStop.quiet)
    => Len(results) = atStop.accepted

\* C3 witness: Stop() has returned in the bad design after all tasks had been
\* accepted by calls that returned before it.
C3_Witness ==
    /\ design = "bad" /\ StopReturned
    /\ nworkers >= 1
    /\ atStop.called /\ atStop.quiet
    /\ atStop.accepted = NumTasks
    /\ Len(results) = NumTasks

\* C4 (as claimed): in the optimized design no ProcessTasks call ends in a
\* send-on-closed-channel panic.
C4_NoSendOnClosed ==
    design = "optimized" => fault # SendOnClosed

\* C5: in the bad design no helper, monitor or sampler ever ends; the live
\* helpers are exactly those of the tasks whose loop iteration is complete
\* (result appended and helper launched); and after Stop() has returned on a
\* started pool the monitor, the sampler and one helper per result are live.
C5_BadLeaks ==
    design = "bad" =>
        /\ \A t \in Tasks : helper[t] # "done"
        /\ mon # "done" /\ smp # "done"
        /\ LiveHelpers = Len(results) - Cardinality({w \in Workers : wpc[w] = "spawn"})
        /\ (StopReturned /\ nworkers >= 0) =>
               /\ LiveBackground = 2
               /\ LiveHelpers = Len(results)
               /\ LiveWorkers = 0

\* C5 witness: Stop() has returned in the bad design with a helper per task,
\* the monitor and the sampler still live.
C5_Witness ==
    /\ design = "bad" /\ StopReturned
    /\ LiveHelpers = NumTasks
    /\ LiveBackground = 2

\* C6 (as claimed): in the optimized design a call of Stop() returns (stated
\* for the first call, as long as no second call is made).
C6_StopTerminates ==
    (design = "optimized" /\ spc[1] # "idle")
        ~> (spc[1] = "returned" \/ \E s \in Stoppers \ {1} : spc[s] # "idle")

\* C7: in both designs no task id has more than one Result.
C7_AtMostOneResult ==
    \A t \in Tasks : Cardinality(ResultsOf(t)) <= 1

\* C7 witness: two workers have each appended the Result of a task.
C7_Witness ==
    /\ nworkers = MaxWorkers
    /\ Len(results) = NumTasks
    /\ \A w \in Workers : wpc[w] = "spawn"

\* C8: results never outnumber the dequeued tasks, which never outnumber the
\* enqueued tasks.
C8_Counts ==
    /\ Len(results) <= dequeued
    /\ dequeued <= enqueued

\* C8 witness: a producer is still sending while another has returned and a
\* result is already there, with two workers draining.
C8_Witness ==
    /\ nworkers = MaxWorkers
    /\ \E p, q \in Producers : ppc[p] = "send" /\ ppc[q] = "returned" /\ phi[q] >= plo[q]
    /\ Len(results) >= 1
    /\ enqueued = dequeued

\* C9 (as claimed): in the optimized design, once a call of Stop() has
\* returned, another call of Stop() does not end in a close-of-closed-channel
\* panic.
C9_StopIdempotent ==
    (design = "optimized" /\ StopReturned) => fault # CloseOfClosed

\* C10: in the bad design the only step a ProcessTasks call can take at a send
\* on the closed queue is the send-on-closed panic, and the process does reach
\* a fault from there; a call of Stop() on the closed queue panics with
\* close-of-closed-channel.
C10_BadFaults ==
    /\ [][design = "bad" =>
            \A p \in Producers :
                (ppc[p] = "send" /\ closed /\ ppc'[p] # ppc[p]) => fault' = SendOnClosed]_vars
    /\ [][design = "bad" =>
            \A s \in Stoppers :
                (spc[s] = "idle" /\ closed /\ spc'[s] # "idle") => fault' = CloseOfClosed]_vars
    /\ \A p \in Producers :
            (design = "bad" /\ ppc[p] = "send" /\ closed) ~> (fault # NoFault)

\* C10 witness: a second Stop() has panicked in the bad design.
C10_Witness ==
    /\ design = "bad"
    /\ fault = CloseOfClosed
    /\ \E s \in Stoppers : spc[s] = "returned"

\* Tasks that ProcessTasks has handed over and whose loop iteration in a
\* worker is not complete (result not yet appended, or helper not yet launched).
InFlight == (enqueued - Len(results)) + Cardinality({w \in Workers : wpc[w] = "spawn"})

\* C11: in the optimized design a ProcessTasks call that is at its send once
\* Stop() has cancelled the context leaves the send (it returns, or the process
\* is aborted by a panic), whatever the workers do.
C11_ProducerLeaves ==
    \A p \in Producers :
        (design = "optimized" /\ ppc[p] = "send" /\ ctxDone)
            ~> (ppc[p] # "send" \/ fault # NoFault)

\* C11 witness: a ProcessTasks call has returned on cancellation with the
\* queue full, Stop() not yet past its cancel, and no worker started.
C11_Witness ==
    /\ design = "optimized" /\ Running
    /\ cap >= 1 /\ Len(taskQueue) = cap
    /\ nworkers = -1
    /\ ~closed
    /\ \E p \in Producers : ppc[p] = "aborted"

\* C12: in the bad design a ProcessTasks call at its send moves on only
\* together with the receive of that task by a worker, or in a step that ends in
\* a fault; with the queue open and no worker at its receive the call has no
\* step at all.
C12_BadSendBlocks ==
    /\ [][design = "bad" =>
            \A p \in Producers :
                (ppc[p] = "send" /\ (ppc'[p] # "send" \/ pnext'[p] # pnext[p]))
                => \/ fault' # NoFault
                   \/ \E w \in Workers : /\ wpc[w] = "recv"
                                          /\ wpc'[w] = "process"
                                          /\ wcur'[w] = pnext[p]]_vars
    /\ [](\A p \in Producers :
            (/\ design = "bad" /\ ppc[p] = "send" /\ ~closed
             /\ \A w \in Workers : wpc[w] # "recv")
            => ~ENABLED BadProducerNext(p))

\* C12 witness: a ProcessTasks call is at its send on a pool started with no
\* worker, the queue still open.
C12_Witness ==
    /\ design = "bad" /\ Running
    /\ nworkers = 0
    /\ ~closed
    /\ \E p \in Producers : ppc[p] = "send"

\* C13 (as claimed): in the optimized design between Start(n) and Stop() the
\* live goroutines number at most n workers, the monitor, the sampler and one
\* helper per task in flight.
C13_StableGoroutines ==
    (/\ design = "optimized" /\ Running
     /\ nworkers >= 0
     /\ \A s \in Stoppers : spc[s] = "idle")
    => LiveActivities <= nworkers + 2 + InFlight

\* C20 (as claimed): in the optimized design the monitor and the sampler take
\* no tick once the context is cancelled.
C20_NoTickAfterCancel ==
    [][(design = "optimized" /\ ctxDone) =>
            /\ ~(mon = "select" /\ mon' = "held")
            /\ ~(smp = "select" /\ smp' = "held")]_vars

\* C14: in both designs the slice a GetResults call returns is w.results as it
\* was when the call took the lock, w.results does not change while the call
\* holds the lock, and nothing changes the returned slice afterwards.
C14_Snapshot ==
    /\ [](\A r \in Readers :
            /\ (Running /\ gpc[r] = "held") => results = gseen[r]
            /\ gpc[r] = "returned" => gret[r] = gseen[r])
    /\ [][\A r \in Readers : gpc[r] = "returned" => gret'[r] = gret[r]]_vars

\* C14 witness: a call has returned one Result and the workers have appended
\* another since.
C14_Witness ==
    \E r \in Readers :
        /\ gpc[r] = "returned"
        /\ Len(gret[r]) = 1
        /\ Len(results) = 2

\* C15: in both designs two GetResults calls that took the lock after Stop()
\* had returned give the same sequence.
C15_SameAfterStop ==
    \A q, r \in Readers :
        (gpc[q] = "returned" /\ gpc[r] = "returned" /\ gafter[q] /\ gafter[r])
        => gret[q] = gret[r]

\* C15 witness: two calls made after Stop() had returned have each returned
\* the Results of all tasks.
C15_Witness ==
    /\ \A r \in Readers : gpc[r] = "returned" /\ gafter[r]
    /\ Len(gret[1]) = NumTasks

\* ---------------------------------------- integers behind the Go ints
\* The integer held by a Go int x whose value fits the low half of the word
\* (32 bits, sign included).
RECURSIVE BytesNat(_, _)
BytesNat(x, i) == IF 2 * i > WordBytes THEN 0 ELSE x[i] + 256 * BytesNat(x, i + 1)

IntOf(x) == IF Negative(x)
            THEN -BytesNat([i \in 1..WordBytes |-> 255 - x[i]], 1) - 1
            ELSE BytesNat(x, 1)

Ints(elems) == [i \in 1..Len(elems) |-> IntOf(elems[i])]
GoInts(ints) == [i \in 1..Len(ints) |-> GoInt(ints[i])]

RECURSIVE ArithSum(_)
ArithSum(ints) == IF ints = <<>> THEN 0 ELSE Head(ints) + ArithSum(Tail(ints))

\* 65536 * x modulo 2^64: the bytes of x moved up by two, the top two lost.
Times65536(x) == <<0, 0>> \o SubSeq(x, 1, WordBytes - 2)

\* The product of the elements of ints other than 65536.
RECURSIVE SmallProduct(_)
SmallProduct(ints) ==
    IF ints = <<>> THEN 1
    ELSE (IF Head(ints) = 65536 THEN 1 ELSE Head(ints)) * SmallProduct(Tail(ints))

\* 65536 * ... * 65536 * x modulo 2^64, one factor for each 65536 in ints.
RECURSIVE TimesEach65536(_, _)
TimesEach65536(x, ints) ==
    IF ints = <<>> THEN x
    ELSE TimesEach65536(IF Head(ints) = 65536 THEN Times65536(x) ELSE x, Tail(ints))

\* The product of ints modulo 2^64, held by a Go int.
ArithProduct(ints) == TimesEach65536(GoInt(SmallProduct(ints)), ints)

IsEven(n) == n % 2 = 0

\* C16: Process returns for Sum the sum of Data and for Multiply the product of
\* Data modulo 2^64 (no overflow guard): 0 and 1 for the empty Data, 10 for Sum
\* of [1,2,3,4], 0 for Multiply of four times 65536.
C16_SumMultiply ==
    \A c \in DOMAIN calls :
        LET d == Ints(task.Data.elems)
            v == calls[c].Value
        IN /\ task.Operation = OperationSum =>
                /\ v = IntValue(GoInt(ArithSum(d)))
                /\ d = <<>> => v = IntValue(GoInt(0))
                /\ d = <<1, 2, 3, 4>> => v = IntValue(GoInt(10))
           /\ task.Operation = OperationMultiply =>
                /\ v = IntValue(ArithProduct(d))
                /\ d = <<>> => v = IntValue(GoInt(1))
                /\ d = <<65536, 65536, 65536, 65536>> => v = IntValue(GoInt(0))
                /\ d = <<65536, 65536, 65536, -3>> =>
                       v = IntValue(<<0, 0, 0, 0, 0, 0, 253, 255>>)

\* C16 witness: Process has multiplied four times 65536, whose product is 2^64.
C16_Witness ==
    /\ Len(calls) >= 1
    /\ task.Operation = OperationMultiply
    /\ Ints(task.Data.elems) = <<65536, 65536, 65536, 65536>>

\* C17: Process returns for Square a slice as long as Data holding the square
\* of each element in place, and for Filter the elements of Data that are even
\* (zero and negative ones too), in their order; Square [1,2,3] = [1,4,9] and
\* Filter [1,2,3,4,5,6] = [2,4,6].
C17_SquareFilter ==
    \A c \in DOMAIN calls :
        LET d == Ints(task.Data.elems)
            v == calls[c].Value
        IN /\ task.Operation = OperationSquare =>
                /\ v.type = "[]int"
                /\ Len(v.elems) = Len(d)
                /\ \A i \in DOMAIN d :
                       v.elems[i] = IF d[i] = 65536 THEN Times65536(GoInt(65536))
                                    ELSE GoInt(d[i] * d[i])
                /\ d = <<1, 2, 3>> => v.elems = <<GoInt(1), GoInt(4), GoInt(9)>>
           /\ task.Operation = OperationFilter =>
                /\ v.type = "[]int"
                /\ v.elems = GoInts(SelectSeq(d, IsEven))
                /\ Len(v.elems) <= Len(d)
                /\ d = <<1, 2, 3, 4, 5, 6>> =>
                       v.elems = <<GoInt(2), GoInt(4), GoInt(6)>>

\* C17 witness: Process has filtered a Data holding a negative odd value, a
\* negative even value, zero and a positive odd value.
C17_Witness ==
    /\ Len(calls) >= 1
    /\ task.Operation = OperationFilter
    /\ Ints(task.Data.elems) = <<-3, -2, 0, 1>>

IsUnknown(op) ==
    op \notin {OperationSum, OperationMultiply, OperationSquare, OperationFilter}

\* The Result of Process on the task NewTask(1, DataSize, op).
ProcessedNew ==
    [op \in OperationTags |-> Process(NewTask(GoInt(1), DataSize, op)).result]

\* C18: Process gives a task with an unknown operation tag a Result with a nil
\* value and the info "Unknown operation"; in the pool that Result is appended
\* like any other: every task received is in a worker's hand or has its Result
\* in w.results.
C18_UnknownOperation ==
    /\ \A op \in OperationTags :
            IsUnknown(op) =>
                ProcessedNew[op]
                    = [TaskID |-> GoInt(1), Value |-> Nil, Info |-> <<"Unknown operation">>]
    /\ \A i \in DOMAIN results :
            IsUnknown(PoolTask(results[i].TaskID).Operation) =>
                /\ results[i].Value = Nil
                /\ results[i].Info = <<"Unknown operation">>
    /\ Running =>
            dequeued = Len(results)
                       + Cardinality({w \in Workers : wpc[w] \in {"process", "lock", "held"}})

\* C18 witness: one worker has appended the Result of a task with an unknown
\* operation tag and, after it, the Result of the next task.
C18_Witness ==
    /\ nworkers = 1
    /\ Len(results) = 2
    /\ IsUnknown(PoolTask(results[1].TaskID).Operation)
    /\ ~IsUnknown(PoolTask(results[2].TaskID).Operation)

\* C19: a call of Process leaves the task as it was; its Result carries the
\* task's ID; a Square or Filter value is a slice of its own and not t.Data; and
\* every call on the task returns the Result the first call returned.
C19_Pure ==
    /\ [][task' = task]_vars
    /\ [](\A c \in DOMAIN calls :
            /\ calls[c].TaskID = task.ID
            /\ calls[c].Value.type = "[]int" => calls[c].Value.arr # task.Data.arr
            /\ calls[c] = calls[1])

\* C19 witness: Process has been called MaxCalls times on a Square task with a
\* Data of MaxLen elements.
C19_Witness ==
    /\ Len(calls) = MaxCalls
    /\ task.Operation = OperationSquare
    /\ Len(task.Data.elems) = MaxLen

\* The activities that are between a w.mu.Lock() and its w.mu.Unlock().
Holders ==
    {MuWorker(w) : w \in {v \in Workers : wpc[v] = "held"}}
    \cup (IF mon = "held" THEN {MuMonitor} ELSE {})
    \cup (IF smp = "held" THEN {MuSampler} ELSE {})
    \cup {MuReader(r) : r \in {q \in Readers : gpc[q] = "held"}}

\* C21: in both designs at most one activity is between Lock and Unlock and
\* w.mu names it; w.results changes only in a step of the worker that holds
\* w.mu, and is read (monitor, GetResults) only in a step of the holder; and the
\* holder's next step is the one that ends in the Unlock: for the monitor, the
\* sampler and GetResults it is always possible, and a worker that holds w.mu
\* moves only by the append and Unlock, leaving the queue alone.
C21_MutexDiscipline ==
    /\ [](Running =>
            /\ Holders = (IF mu = MuFree THEN {} ELSE {mu})
            /\ mon = "held" => ENABLED (OptMonitorUnlock \/ BadMonitorUnlock)
            /\ smp = "held" => ENABLED (OptMetricsUnlock \/ BadMetricsUnlock)
            /\ \A r \in Readers :
                   gpc[r] = "held" => ENABLED (OptGetResults(r) \/ BadGetResults(r)))
    /\ [][(results' # results /\ fault' = NoFault) =>
            \E w \in Workers : mu = MuWorker(w) /\ wpc[w] = "held"]_vars
    /\ [][/\ (mon = "held" /\ mon' # "held") => mu = MuMonitor
          /\ \A r \in Readers :
                 (gpc[r] = "held" /\ gpc'[r] # "held") => mu = MuReader(r)]_vars
    /\ [][\A w \in Workers :
            (wpc[w] = "held" /\ fault' = NoFault) =>
                \/ wpc'[w] = "held" /\ mu' = mu /\ results' = results
                \/ /\ wpc'[w] = "spawn" /\ mu' = MuFree
                   /\ Len(results') = Len(results) + 1
                   /\ taskQueue' = taskQueue]_vars

\* C21 witness: a worker holds the mutex while the other worker, the monitor
\* and the sampler are live and a GetResults call has yet to take the lock.
C21_Witness ==
    /\ Running
    /\ \E w, v \in Workers : wpc[w] = "held" /\ wpc[v] = "lock"
    /\ mon = "select" /\ smp = "select"
    /\ gpc[1] = "returned" /\ gpc[2] = "idle"

\* C22: in the optimized design, while Stop() has not been called and no more
\* than cap tasks have been given to ProcessTasks, a call at its send can
\* complete the send, whatever the workers do.
C22_NoBlockWithinCapacity ==
    \A p \in Producers :
        (/\ design = "optimized" /\ Running
         /\ \A s \in Stoppers : spc[s] = "idle"
         /\ nextId - 1 <= cap
         /\ ppc[p] = "send")
        => ENABLED (OptProcessTasksSend(p) \/ \E w \in Workers : OptProcessTasksHandoff(p, w))

\* C22 witness: with no worker started, two ProcessTasks calls have returned
\* and the queue holds as many tasks as its capacity.
C22_Witness ==
    /\ design = "optimized" /\ Running
    /\ nworkers = -1
    /\ \A s \in Stoppers : spc[s] = "idle"
    /\ cap = MaxCap /\ Len(taskQueue) = cap
    /\ \A p \in Producers : ppc[p] = "returned" /\ phi[p] >= plo[p]

InQueue(t) == \E i \in DOMAIN taskQueue : taskQueue[i] = t
\* Only the first caller of ProcessTasks has called.
SingleProducer == \A p \in Producers \ {1} : ppc[p] = "idle"

\* C24: in both designs a receive from a non-empty queue takes its oldest task
\* and a send adds at its end; so of two tasks of one ProcessTasks call (sent in
\* the order of their ids) the later one has left the queue only if the earlier
\* one has.
C24_Fifo ==
    /\ [][\A w \in Workers :
            (wpc[w] = "recv" /\ wpc'[w] = "process" /\ taskQueue # <<>>)
            => wcur'[w] = Head(taskQueue) /\ taskQueue' = Tail(taskQueue)]_vars
    /\ [][Len(taskQueue') > Len(taskQueue) =>
            \E t \in Tasks : taskQueue' = Append(taskQueue, t)]_vars
    /\ [](Running =>
            \A p \in Producers : \A t, u \in plo[p]..phi[p] :
                (t < u /\ u < pnext[p] /\ ~InQueue(u)) => ~InQueue(t))

\* C24 witness: of two tasks sent by one call into a queue of capacity 2 a
\* worker holds the first and the second is still queued.
C24_Witness ==
    /\ design = "optimized" /\ Running /\ cap = 2
    /\ SingleProducer /\ plo[1] = 1 /\ phi[1] = 2
    /\ enqueued = 2
    /\ taskQueue = <<2>>
    /\ \E w \in Workers : wcur[w] = 1

\* C25: with one worker and one caller of ProcessTasks the i-th Result is that
\* of the i-th task submitted.
C25_OneWorkerOrder ==
    (Running /\ nworkers = 1 /\ SingleProducer) =>
        \A i \in DOMAIN results : results[i].TaskID = i

\* C25 witness: with two workers and one caller of ProcessTasks the Result of
\* the second task stands before that of the first.
C25_Witness ==
    /\ Running /\ nworkers = 2 /\ SingleProducer
    /\ Len(results) = 2
    /\ results[1].TaskID = 2 /\ results[2].TaskID = 1

\* C26: in the bad design a worker ends only on the closed queue, and when
\* Stop() has returned every task received has its Result in w.results.
C26_BadWorkerExit ==
    /\ [][design = "bad" =>
            \A w \in Workers : (wpc[w] # "done" /\ wpc'[w] = "done") => closed]_vars
    /\ []((design = "bad" /\ Running) =>
            /\ \A w \in Workers : wpc[w] = "done" => closed
            /\ StopReturned =>
                   /\ dequeued = Len(results)
                   /\ \A w \in Workers : wcur[w] = 0 /\ wpc[w] \in {"none", "done"})

\* C26 witness: Stop() has closed the queue and waits while a worker is
\* processing a task it had received.
C26_Witness ==
    /\ design = "bad" /\ Running
    /\ closed /\ spc[1] = "wait"
    /\ \E w \in Workers : wpc[w] = "process"

\* C27: in both designs the processed counter counts every received task once,
\* between its receipt and the append of its Result: it equals the results plus
\* the workers between the Inc and the append, so it lies between len(results)
\* and len(results) + number of workers; it never decreases; and it equals
\* len(results) when every worker has ended.
C27_ProcessedCounter ==
    /\ [](Running =>
            /\ tasksProcessed
                   = Len(results) + Cardinality({w \in Workers : wpc[w] \in {"lock", "held"}})
            /\ tasksProcessed
                   = dequeued - Cardinality({w \in Workers : wpc[w] = "process"})
            /\ Len(results) <= tasksProcessed
            /\ nworkers >= 0 => tasksProcessed <= Len(results) + nworkers
            /\ (nworkers >= 0 /\ \A w \in Workers : wpc[w] \in {"none", "done"})
                   => tasksProcessed = Len(results))
    /\ [][fault' = NoFault => tasksProcessed' >= tasksProcessed]_vars

\* C27 witness: every worker has counted its task and none has appended yet.
C27_Witness ==
    /\ Running /\ nworkers = MaxWorkers
    /\ tasksProcessed = nworkers
    /\ results = <<>>

\* C28: in the optimized helper the buffer keeps the backing array of its
\* make([]int, 0, 10), of capacity 10, through every tick, and after every
\* tick it holds the 10 elements 0..9.
C28_ConstantWorkingSet ==
    (design = "optimized" /\ hpc \in {"select", "loop", "done"}) =>
        /\ Len(checkData.store) = CheckCap
        /\ checkData.arr = 1 /\ hallocs = 1
        /\ (hpc # "loop" /\ hticks > 0) =>
               /\ checkData.len = CheckLen
               /\ Elems(checkData) = [i \in 1..CheckLen |-> i - 1]

\* C28 witness: the optimized helper has completed as many ticks as the bound
\* allows.
C28_Witness ==
    /\ design = "optimized"
    /\ hpc = "select"
    /\ hticks = MaxTicks
    /\ checkData.len = CheckLen

\* The largest of the values read so far (field f of the readings).
RECURSIVE MaxRead(_, _)
MaxRead(f, n) ==
    IF n = 0 THEN Zero(Len(memStats[f]))
    ELSE IF UintLess(MaxRead(f, n - 1), reads[n][f]) THEN reads[n][f]
         ELSE MaxRead(f, n - 1)

\* C29 as stated: after each sample the published counters equal the
\* cumulative values read at that sample, and they never decrease.
C29_PublishedEqualsRead ==
    /\ []((memStats # Nil /\ reads # <<>>) =>
            /\ TotalAllocations[design] = Exact(m.TotalAlloc)
            /\ GCRuns[design] = Exact(m.NumGC))
    /\ [][memStats # Nil =>
            \A d \in Designs :
                /\ ~UintLess(TotalAllocations'[d], TotalAllocations[d])
                /\ ~UintLess(GCRuns'[d], GCRuns[d])]_vars

\* C29 amended: the published counters never decrease; after each sample the
\* GC counter equals the largest NumGC read so far and the allocation counter
\* the largest TotalAlloc read so far when float64 holds that number exactly
\* (MantissaBits bits); these are the values read at that sample unless an
\* earlier reading was higher.
C29_MonotonicCounters ==
    /\ []((memStats # Nil /\ reads # <<>>) =>
            /\ GCRuns[design] = Exact(MaxRead("NumGC", Len(reads)))
            /\ lastNumGC = MaxRead("NumGC", Len(reads))
            /\ lastTotalAlloc = MaxRead("TotalAlloc", Len(reads))
            /\ TopBit(lastTotalAlloc) <= MantissaBits =>
                   TotalAllocations[design] = Exact(lastTotalAlloc)
            /\ ~UintLess(m.NumGC, lastNumGC) => GCRuns[design] = Exact(m.NumGC)
            /\ (~UintLess(m.TotalAlloc, lastTotalAlloc)
                    /\ TopBit(m.TotalAlloc) <= MantissaBits) =>
                   TotalAllocations[design] = Exact(m.TotalAlloc))
    /\ [][memStats # Nil =>
            \A d \in Designs :
                /\ ~UintLess(TotalAllocations'[d], TotalAllocations[d])
                /\ ~UintLess(GCRuns'[d], GCRuns[d])]_vars

\* C29 witness: NumGC has wrapped, the sample read is lower than the one
\* before, and the published counter has stayed.
C29_Witness ==
    /\ memStats # Nil
    /\ Len(reads) >= 2
    /\ UintLess(m.NumGC, lastNumGC)
    /\ GCRuns[design] = Exact(lastNumGC)

\* processMessage goroutines running, and receives made, over all deliveries
RECURSIVE RunningUpTo(_)
RunningUpTo(d) ==
    IF d = 0 THEN 0
    ELSE Cardinality({i \in DOMAIN pm[d] : pm[d][i] = "running"}) + RunningUpTo(d - 1)

RECURSIVE ReceivedUpTo(_)
ReceivedUpTo(d) == IF d = 0 THEN 0 ELSE received[d] + ReceivedUpTo(d - 1)

\* C30: a delivery sent is on the channel or has been received exactly once,
\* by a consumer loop that holds it or has launched exactly one processMessage
\* for it; the processMessage goroutines running are at most the deliveries
\* received (and may be more than maxWorker, see the witness); with maxWorker
\* = 0 nothing is received.
C30_OneHandlerPerDelivery ==
    startpc # "none" =>
        /\ \A d \in Deliveries :
               /\ received[d] + Cardinality({i \in DOMAIN messages : messages[i] = d})
                      = (IF d <= sent THEN 1 ELSE 0)
               /\ Len(pm[d]) + Cardinality({c \in Consumers : ccur[c] = d})
                      = received[d]
        /\ RunningUpTo(NumDeliveries) <= ReceivedUpTo(NumDeliveries)
        /\ Cardinality({c \in Consumers : cpc[c] \in {"range", "spawn"}})
               <= (IF maxWorker > 0 THEN maxWorker ELSE 0)
        /\ maxWorker <= 0 => ReceivedUpTo(NumDeliveries) = 0

\* C30 witness: with maxWorker = 1 every delivery has been received and all
\* their processMessage goroutines are running at once.
C30_Witness ==
    /\ maxWorker = 1
    /\ ReceivedUpTo(NumDeliveries) = NumDeliveries
    /\ RunningUpTo(NumDeliveries) = NumDeliveries
    /\ RunningUpTo(NumDeliveries) > maxWorker

\* Messages on pokemon_generated that come from delivery d.
PublishedFor(d) == Cardinality({k \in DOMAIN output : output[k] = d})

\* C31: at most one message reaches pokemon_generated per delivery, and only
\* from a processMessage that ended "published": none when the body does not
\* decode or the pokemon does not encode; a processMessage step, failed or
\* not, leaves the consumer loops and the channel as they are, a loop ends
\* only on the closed and drained channel, and a loop at its range with a
\* delivery waiting can receive it.
C31_PublishAtMostOnce ==
    /\ [](startpc # "none" =>
            /\ \A d \in Deliveries :
                   /\ PublishedFor(d) <= 1
                   /\ PublishedFor(d)
                          = Cardinality({i \in DOMAIN pm[d] : pm[d][i] = "published"})
                   /\ ~Decodes(body[d]) => PublishedFor(d) = 0
                   /\ (\E i \in DOMAIN pm[d] :
                          pm[d][i] \in {"unmarshal error", "marshal error"})
                          => PublishedFor(d) = 0
            /\ \A c \in Consumers :
                   (cpc[c] = "range" /\ messages # <<>>) => ENABLED ConsumerRecv(c))
    /\ [][(\E d \in Deliveries : \E i \in DOMAIN pm[d] :
                pm[d][i] = "running" /\ pm'[d][i] # "running")
            => (cpc' = cpc /\ messages' = messages /\ msgClosed' = msgClosed)]_vars
    /\ [][\A c \in Consumers :
            (cpc[c] # "done" /\ cpc'[c] = "done") => (msgClosed /\ messages = <<>>)]_vars

\* C31 witness: the first delivery could not be decoded, a later one failed to
\* encode, and the one after them was published.
C31_Witness ==
    /\ startpc # "none"
    /\ sent = NumDeliveries
    /\ pm[1] = <<"unmarshal error">>
    /\ pm[2] = <<"marshal error">>
    /\ pm[NumDeliveries] = <<"published">>
    /\ output = <<NumDeliveries>>

\* ------------------------------------------------- demo: GoroutineLeak
\* The handler of /goroutine-leak. Its loop runs Limit times (100000 in the
\* code); the goroutine of iteration i is lgo[i + 1]. The default branch of
\* the goroutine's select prints and changes nothing, so it is no step here.
Limit == 3          \* limit of the handler's loop

LeakInit ==
    /\ NewBadWorker /\ Fresh
    /\ task = NoTask /\ calls = <<>>
    /\ HelperIdle /\ MetricsIdle /\ ControllerIdle
    /\ BenchIdle /\ PublishIdle /\ NewTaskIdle /\ StatsIdle
    /\ leak = [pc |-> "loop", i |-> 0, ctx |-> FALSE, wg |-> 0,
               go |-> [i \in 1..Limit |-> "none"],
               fired |-> [i \in 1..Limit |-> FALSE],
               resp |-> ""]

leakConst == <<design, ctxDone, poolOnly, helperVars, metricVars,
               ctlVars, mixed, publish, call, gen>>

\* The deadline of context.WithTimeout passes, or the request's context ends.
CtxTimeout ==
    /\ lpc \notin {"none", "returned"} /\ ~lctx
    /\ leak' = [leak EXCEPT !.ctx = TRUE]
    /\ UNCHANGED leakConst

\* for i := range limit { wg.Add(1); time.Sleep(...) ... }
LeakLoop ==
    /\ lpc = "loop"
    /\ leak' = IF li < Limit
               THEN [leak EXCEPT !.wg = lwg + 1, !.pc = "select"]
               ELSE [leak EXCEPT !.pc = "wait"]
    /\ UNCHANGED leakConst

\* case <-ctx.Done(): return c.SendString("context done"); the deferred
\* cancel() finds ctx done already.
LeakSelectDone ==
    /\ lpc = "select" /\ lctx
    /\ leak' = [leak EXCEPT !.resp = "context done", !.pc = "returned"]
    /\ UNCHANGED leakConst

\* default: go func() { ... }()
LeakSelectDefault ==
    /\ lpc = "select" /\ ~lctx
    /\ leak' = [leak EXCEPT !.go[li + 1] = "running", !.i = li + 1,
                            !.pc = "loop"]
    /\ UNCHANGED leakConst

\* wg.Wait(); return c.SendString("leak done"), then the deferred cancel()
LeakWait ==
    /\ lpc = "wait" /\ lwg = 0
    /\ leak' = [leak EXCEPT !.resp = "leak done", !.pc = "returned",
                            !.ctx = TRUE]
    /\ UNCHANGED leakConst

\* The timer of goroutine i (10*i seconds) fires.
TimerFire(i) ==
    /\ lgo[i] = "running" /\ ~lfired[i]
    /\ leak' = [leak EXCEPT !.fired[i] = TRUE]
    /\ UNCHANGED leakConst

\* Mutant of GoExitCtx: the goroutine does not look at ctx.Done().
GoExitCtx_Blind(i) ==
    /\ lgo[i] = "running" /\ lfired[i]
    /\ leak' = [leak EXCEPT !.go[i] = "exited", !.wg = lwg - 1]
    /\ UNCHANGED leakConst

\* case <-ctx.Done(): return, then timer.Stop() and wg.Done()
GoExitCtx(i) ==
    /\ lgo[i] = "running" /\ lctx
    /\ leak' = [leak EXCEPT !.go[i] = "exited", !.wg = lwg - 1]
    /\ UNCHANGED leakConst

\* case <-timer.C: return, then timer.Stop() and wg.Done()
GoExitTimer(i) ==
    /\ lgo[i] = "running" /\ lfired[i]
    /\ leak' = [leak EXCEPT !.go[i] = "exited", !.wg = lwg - 1]
    /\ UNCHANGED leakConst

LeakNext ==
    \/ CtxTimeout
    \/ LeakLoop
    \/ LeakSelectDone
    \/ LeakSelectDefault
    \/ LeakWait
    \/ \E i \in 1..Limit : TimerFire(i)
    \/ \E i \in 1..Limit : GoExitCtx(i)
    \/ \E i \in 1..Limit : GoExitTimer(i)

LeakSpec == LeakInit /\ [][LeakNext]_vars

\* The scheduler runs the handler and every goroutine that can take a step;
\* nothing is assumed about when the deadline passes or a timer fires.
LeakFairness ==
    /\ WF_vars(LeakLoop) /\ WF_vars(LeakSelectDone)
    /\ WF_vars(LeakSelectDefault) /\ WF_vars(LeakWait)
    /\ \A i \in 1..Limit : WF_vars(GoExitCtx(i)) /\ WF_vars(GoExitTimer(i))

LeakFairSpec == LeakInit /\ [][LeakNext]_vars /\ LeakFairness

LeakRunning == {i \in 1..Limit : lgo[i] = "running"}

\* C32: once GoroutineLeak has returned, every goroutine it spawned
\* terminates, on both exit paths: the handler's ctx is cancelled when it
\* returns, "leak done" is sent only after every goroutine has exited, and a
\* goroutine that still runs after "context done" exits.
C32_GoroutinesTerminate ==
    /\ [](lpc = "returned" => lctx)
    /\ [](lresp = "leak done" => LeakRunning = {} /\ lwg = 0)
    /\ [](\A i \in 1..Limit : lgo[i] = "exited" => lctx \/ lfired[i])
    /\ (lpc = "returned" ~> LeakRunning = {})

\* "context done" was sent while two goroutines were running and neither
\* timer had fired.
C32_Witness ==
    /\ lpc = "returned" /\ lresp = "context done"
    /\ Cardinality(LeakRunning) >= 2
    /\ \A i \in LeakRunning : ~lfired[i]

\* --------------------------------------- benchmarks: mutex_test.go, mixed
\* BenchmarkMutexMixed and BenchmarkRWMutexMixed: b.RunParallel runs the body
\* on BenchProcs goroutines, pb.Next() hands out the b.N iterations.
BenchProcs == 2     \* goroutines of b.RunParallel
BenchN == 3         \* largest b.N

BenchGoroutines == 1..BenchProcs

BenchInit ==
    /\ NewBadWorker /\ Fresh
    /\ task = NoTask /\ calls = <<>>
    /\ HelperIdle /\ MetricsIdle /\ ControllerIdle
    /\ LeakIdle /\ PublishIdle /\ NewTaskIdle /\ StatsIdle
    /\ \E name \in {"Mutex", "RWMutex"}, n \in 1..BenchN :
          mixed = [bench |-> name, data |-> GoInt(0), mu |-> {},
                   pc |-> [g \in BenchGoroutines |-> "next"],
                   left |-> n, reads |-> 0, writes |-> 0]

benchConst == <<design, ctxDone, poolOnly, helperVars, metricVars, ctlVars,
                leak, publish, call, gen>>

\* for pb.Next() { ... }
BenchNext(g) ==
    /\ bpc[g] = "next"
    /\ mixed' = IF bleft > 0
                THEN [mixed EXCEPT !.left = bleft - 1,
                        !.pc[g] = IF bench = "Mutex" THEN "lock" ELSE "test"]
                ELSE [mixed EXCEPT !.pc[g] = "done"]
    /\ UNCHANGED benchConst

\* mu.Lock() of the Mutex benchmark; mu.RLock() or mu.Lock() of the RWMutex
\* benchmark, in the branch the test chose.
BenchLock(g) ==
    /\ bpc[g] \in {"lock", "rlock", "wlock"}
    /\ IF bpc[g] = "rlock"
       THEN /\ \A h \in bmu : h[1] = "r"
            /\ mixed' = [mixed EXCEPT !.mu = bmu \cup {<<"r", g>>},
                                      !.pc[g] = "read"]
       ELSE /\ bmu = {}
            /\ mixed' = [mixed EXCEPT !.mu = {<<"w", g>>},
                            !.pc[g] = IF bpc[g] = "lock" THEN "test" ELSE "write"]
    /\ UNCHANGED benchConst

\* if data%2 == 0 { ... } else { ... }
BenchTest(g) ==
    /\ bpc[g] = "test"
    /\ mixed' = [mixed EXCEPT !.pc[g] =
                    IF Rem2(bdata) = 0
                    THEN (IF bench = "Mutex" THEN "read" ELSE "rlock")
                    ELSE (IF bench = "Mutex" THEN "write" ELSE "wlock")]
    /\ UNCHANGED benchConst

\* _ = data // read, or data++ // write
BenchBranch(g) ==
    /\ bpc[g] \in {"read", "write"}
    /\ mixed' = IF bpc[g] = "read"
                THEN [mixed EXCEPT !.reads = breads + 1, !.pc[g] = "unlock"]
                ELSE [mixed EXCEPT !.data = IntAdd(bdata, GoInt(1)),
                                   !.writes = bwrites + 1, !.pc[g] = "unlock"]
    /\ UNCHANGED benchConst

\* mu.Unlock() / mu.RUnlock()
BenchUnlock(g) ==
    /\ bpc[g] = "unlock"
    /\ mixed' = [mixed EXCEPT !.mu = bmu \ {<<"r", g>>, <<"w", g>>},
                              !.pc[g] = "next"]
    /\ UNCHANGED benchConst

BenchNextStep ==
    \/ \E g \in BenchGoroutines : BenchNext(g)
    \/ \E g \in BenchGoroutines : BenchLock(g)
    \/ \E g \in BenchGoroutines : BenchTest(g)
    \/ \E g \in BenchGoroutines : BenchBranch(g)
    \/ \E g \in BenchGoroutines : BenchUnlock(g)

BenchSpec == BenchInit /\ [][BenchNextStep]_vars

BenchDone == bench # "none" /\ \A g \in BenchGoroutines : bpc[g] = "done"

\* C33: over the iterations of a run of BenchmarkMutexMixed or
\* BenchmarkRWMutexMixed both the read branch and the write branch (data++)
\* are executed. Stated for the runs of at least two iterations.
C33_BothBranchesRun ==
    (BenchDone /\ breads + bwrites >= 2) => (breads >= 1 /\ bwrites >= 1)

\* What the code does: the write branch is never taken and data stays 0.
C33_OnlyReads == bench # "none" => (bwrites = 0 /\ bdata = GoInt(0))

\* ------------------------------------------------ demo: /publish/:number
\* The parameter is a string, held as the sequence of its characters; the
\* response is held as the sequence of its words, a number as its characters.
Params == {<<"0">>, <<"3">>, <<"4">>, <<"-", "2">>, <<"-", "0">>, <<"+", "1">>,
           <<"0", "2">>, <<"1", "0">>, <<>>, <<"x">>, <<"2", "x">>, <<"-">>}

Digits == <<"0", "1", "2", "3", "4", "5", "6", "7", "8", "9">>
DigitOf(ch) == (CHOOSE k \in DOMAIN Digits : Digits[k] = ch) - 1
IsDigit(ch) == \E k \in DOMAIN Digits : Digits[k] = ch

RECURSIVE DigitsValue(_)
DigitsValue(s) ==
    IF s = <<>> THEN 0
    ELSE 10 * DigitsValue(SubSeq(s, 1, Len(s) - 1)) + DigitOf(s[Len(s)])

\* strconv.Atoi: an optional sign, then one or more decimal digits; anything
\* else is an error. The parameters of the model stay far below 2^63, so the
\* range error of Atoi does not arise.
Atoi(s) ==
    LET signed == s # <<>> /\ s[1] \in {"+", "-"}
        digits == IF signed THEN Tail(s) ELSE s
    IN  IF digits = <<>> \/ \E k \in DOMAIN digits : ~IsDigit(digits[k])
        THEN [ok |-> FALSE, val |-> 0]
        ELSE [ok |-> TRUE,
              val |-> IF signed /\ s[1] = "-" THEN 0 - DigitsValue(digits)
                      ELSE DigitsValue(digits)]

RECURSIVE NatDigits(_)
NatDigits(n) ==
    IF n < 10 THEN <<Digits[n + 1]>>
    ELSE Append(NatDigits(n \div 10), Digits[(n % 10) + 1])

\* fmt.Sprintf("published %d messages", n)
Published(n) ==
    <<"published">> \o (IF n < 0 THEN <<"-">> \o NatDigits(0 - n) ELSE NatDigits(n))
                    \o <<"messages">>

PublishInit ==
    /\ NewBadWorker /\ Fresh
    /\ task = NoTask /\ calls = <<>>
    /\ HelperIdle /\ MetricsIdle /\ ControllerIdle
    /\ LeakIdle /\ BenchIdle /\ NewTaskIdle /\ StatsIdle
    /\ \E param \in Params :
          publish = [number |-> param, pc |-> "atoi", numberInt |-> 0,
                     done |-> 0, calls |-> <<>>, resp |-> <<>>]

pubConst == <<design, ctxDone, poolOnly, helperVars, metricVars, ctlVars,
              leak, mixed, call, gen>>

\* numberInt, err := strconv.Atoi(number); if err != nil { return ... }
PublishAtoi ==
    /\ qpc = "atoi"
    /\ publish' = IF Atoi(number).ok
                  THEN [publish EXCEPT !.numberInt = Atoi(number).val,
                                       !.pc = "loop"]
                  ELSE [publish EXCEPT !.resp = <<"invalid number">>,
                                       !.pc = "returned"]
    /\ UNCHANGED pubConst

\* One iteration of for range numberInt: json.Marshal(j), then
\* rmq.Channel().Publish(...), whose error is not looked at.
PublishIteration(marshalOk, publishOk) ==
    /\ qpc = "loop" /\ qdone < numberInt
    /\ publish' = IF marshalOk
                  THEN [publish EXCEPT !.calls = Append(qcalls, publishOk),
                                       !.done = qdone + 1]
                  ELSE [publish EXCEPT !.resp = <<"error marshalling job">>,
                                       !.pc = "returned"]
    /\ UNCHANGED pubConst

\* The loop is over (at once when numberInt <= 0):
\* return c.SendString(fmt.Sprintf("published %d messages", numberInt))
PublishReturn ==
    /\ qpc = "loop" /\ ~(qdone < numberInt)
    /\ publish' = [publish EXCEPT !.resp = Published(numberInt),
                                  !.pc = "returned"]
    /\ UNCHANGED pubConst

PublishNext ==
    \/ PublishAtoi
    \/ \E marshalOk, publishOk \in BOOLEAN : PublishIteration(marshalOk, publishOk)
    \/ PublishReturn

PublishSpec == PublishInit /\ [][PublishNext]_vars

\* C34: for every integer parameter n, zero and negative n included, the count
\* in the response "published n messages" is the number of Publish calls the
\* handler issued.
C34_ReportedEqualsIssued ==
    (qpc = "returned" /\ qresp # <<>> /\ qresp[1] = "published")
        => qresp = Published(Len(qcalls))

\* What the code does: the response carries the parameter, the calls issued
\* are as many as the parameter when it is not negative and none otherwise.
C34_ReportsParameter ==
    (qpc = "returned" /\ qresp # <<>> /\ qresp[1] = "published")
        => /\ qresp = Published(numberInt)
           /\ Len(qcalls) = IF numberInt < 0 THEN 0 ELSE numberInt

\* ------------------------------------------------------ task: NewTask
\* NewTask on its own: a call with the arguments args. make([]int, dataSize)
\* panics when dataSize is negative.
BigId == <<0, 0, 0, 0, 0, 0, 0, 64>>                    \* 1 << 62
ThirdId == <<170, 170, 170, 170, 170, 170, 170, 42>>    \* (1<<63 - 1) / 3
MaxId == <<255, 255, 255, 255, 255, 255, 255, 127>>     \* 1<<63 - 1
NewTaskIds == {GoInt(0), GoInt(1), GoInt(33), GoInt(-1), GoInt(-34),
               BigId, ThirdId, MaxId}
MakePanic == [panic |-> "makeslice: len out of range"]

NewTaskInit ==
    /\ NewBadWorker /\ Fresh
    /\ task = NoTask /\ calls = <<>>
    /\ HelperIdle /\ MetricsIdle /\ ControllerIdle
    /\ LeakIdle /\ BenchIdle /\ PublishIdle /\ StatsIdle
    /\ \E a \in [id : NewTaskIds, dataSize : (0 - 1)..MaxLen, op : OperationTags] :
          call = [args |-> a, made |-> NoTask]

\* t := NewTask(id, dataSize, op)
CallNewTask ==
    /\ args # NoArgs /\ made = NoTask
    /\ call' = [call EXCEPT !.made =
                    IF args.dataSize < 0 THEN MakePanic
                    ELSE NewTask(args.id, args.dataSize, args.op)]
    /\ UNCHANGED <<design, ctxDone, poolOnly, helperVars, metricVars, ctlVars,
                   leak, mixed, publish, gen>>

NewTaskSpec == NewTaskInit /\ [][CallNewTask]_vars

Made == made \notin {NoTask, MakePanic}

\* An int of at most 16 bits, sign included.
SmallId(x) == \A i \in 3..WordBytes : x[i] = IF Negative(x) THEN 255 ELSE 0

\* The remainder of the truncating division of the integer a by d.
TruncRem(a, d) == IF a < 0 THEN 0 - ((0 - a) % d) ELSE a % d

\* i*7 + id*3 is at most 1<<63 - 1 for id >= 0: none of the partial sums of
\* id + id + id + i*7 wraps to a negative int.
NoOverflow(id, i) ==
    /\ ~Negative(id)
    /\ ~Negative(IntAdd(id, id))
    /\ ~Negative(IntAdd(IntAdd(id, id), id))
    /\ ~Negative(IntAdd(IntAdd(IntAdd(id, id), id), GoInt(i * 7)))

\* C35 as stated: for id >= 0 every element of the task NewTask returns lies
\* in 0..99.
C35_ElementsInRange ==
    (Made /\ ~Negative(args.id)) =>
        \A i \in DOMAIN made.Data.elems : IntOf(made.Data.elems[i]) \in 0..99

\* C35, amended: NewTask returns the task with ID = id, Operation = op and
\* exactly dataSize elements, element i being (i*7 + id*3) % 100 in Go's int
\* arithmetic: every element lies in -99..99, and in 0..99 when id >= 0 and
\* i*7 + id*3 does not exceed the largest int; for small ids it is the
\* truncated remainder of the integer i*7 + id*3.
C35_NewTask ==
    Made =>
        /\ made.ID = args.id /\ made.Operation = args.op
        /\ Len(made.Data.elems) = args.dataSize
        /\ made = NewTask(args.id, args.dataSize, args.op)
        /\ \A i \in DOMAIN made.Data.elems :
            LET e == IntOf(made.Data.elems[i])
            IN  /\ e \in (0 - 99)..99
                /\ made.Data.elems[i] = GoInt(e)
                /\ NoOverflow(args.id, i - 1) => e \in 0..99
                /\ SmallId(args.id) =>
                        e = TruncRem((i - 1) * 7 + IntOf(args.id) * 3, 100)

\* NewTask(1 << 62, dataSize, op): 3 * (1 << 62) wraps to -(1 << 62), and the
\* first element is -4; with id = (1<<63 - 1) / 3 the first element is in
\* range and the second is not.
C35_Witness ==
    /\ Made /\ args.dataSize >= 2
    /\ \/ args.id = BigId /\ IntOf(made.Data.elems[1]) = 0 - 4
       \/ /\ args.id = ThirdId
          /\ IntOf(made.Data.elems[1]) \in 0..99
          /\ IntOf(made.Data.elems[2]) < 0

\* ------------------------------------ super-worker: GenerateDNA, GenerateStats
\* A DNA string is held as its length: GenerateStats looks at nothing else.
\* The call starts either in GeneratePokemon, with the DNA of GenerateDNA, or
\* at GenerateStats with a DNA of any length up to MaxDnaLen.
MaxDnaLen == 6      \* longest DNA handed to GenerateStats directly
DnaLoops == 10000   \* iterations of GenerateDNA's loop
NumStats == 7       \* fields of entity.Stats
IntnAll == 4        \* rand.Intn(n) draws any value for n up to here

\* The values rand.Intn(n) is drawn from, n > 0: all of 0..n-1 for small n,
\* both ends of the range for large n.
Intn(n) == IF n <= IntnAll THEN 0..(n - 1) ELSE {0, 1, n - 2, n - 1}

\* Mutant of StatBase: the length is not halved.
StatBase_NoHalf(len) == len

\* base := len(dna); if base > 2 { base = base / 2 }
StatBase(len) == IF len > 2 THEN len \div 2 ELSE len

StatsInit ==
    /\ NewBadWorker /\ Fresh
    /\ task = NoTask /\ calls = <<>>
    /\ HelperIdle /\ MetricsIdle /\ ControllerIdle
    /\ LeakIdle /\ BenchIdle /\ PublishIdle /\ NewTaskIdle
    /\ \/ gen = [dna |-> 0, pc |-> "dna", stats |-> <<>>]
       \/ \E len \in 0..MaxDnaLen :
              gen = [dna |-> len, pc |-> "stats", stats |-> <<>>]

statConst == <<design, ctxDone, poolOnly, helperVars, metricVars, ctlVars,
               leak, mixed, publish, call>>

\* GenerateDNA: for range 10000 { dna += string(base[rand.Intn(len(base))]) },
\* one byte of "ATCG" a time; then return dna, and GenerateStats(dna).
GenerateDNA ==
    /\ genpc = "dna"
    /\ gen' = IF dna < DnaLoops
              THEN [gen EXCEPT !.dna = dna + 1]
              ELSE [gen EXCEPT !.pc = "stats"]
    /\ UNCHANGED statConst

\* baseLv := rand.Intn(base) + 1, and so on for the other stats
GenerateStatsDraw(r) ==
    /\ genpc = "stats" /\ Len(stats) < NumStats
    /\ StatBase(dna) > 0
    /\ r \in Intn(StatBase(dna))
    /\ gen' = [gen EXCEPT !.stats = Append(stats, r + 1)]
    /\ UNCHANGED statConst

\* rand.Intn(0) panics ("invalid argument to Intn")
GenerateStatsPanic ==
    /\ genpc = "stats" /\ Len(stats) < NumStats
    /\ StatBase(dna) <= 0
    /\ gen' = [gen EXCEPT !.pc = "panicked"]
    /\ UNCHANGED statConst

\* return entity.Stats{...}
GenerateStatsReturn ==
    /\ genpc = "stats" /\ Len(stats) = NumStats
    /\ gen' = [gen EXCEPT !.pc = "returned"]
    /\ UNCHANGED statConst

StatsNext ==
    \/ GenerateDNA
    \/ \E r \in Intn(StatBase(dna)) : GenerateStatsDraw(r)
    \/ GenerateStatsPanic
    \/ GenerateStatsReturn

StatsSpec == StatsInit /\ [][StatsNext]_vars

\* C36: GenerateStats(dna) returns seven stats, each in 1..base, where base is
\* len(dna)/2 when len(dna) > 2 and len(dna) otherwise; the DNA of GenerateDNA
\* has length 10000, so its stats are in 1..5000; for the empty DNA the call
\* panics in rand.Intn(0) and returns no stats.
C36_StatsInRange ==
    /\ [](genpc = "returned" =>
            /\ Len(stats) = 7
            /\ \A k \in DOMAIN stats :
                  stats[k] \in 1..(IF dna > 2 THEN dna \div 2 ELSE dna))
    /\ []((genpc = "returned" /\ dna = 10000) =>
            \A k \in DOMAIN stats : stats[k] \in 1..5000)
    /\ [][(genpc = "dna" /\ genpc' = "stats") => dna' = 10000]_vars
    /\ [](genpc = "returned" => dna > 0)
    /\ [](genpc = "panicked" => dna = 0 /\ stats = <<>>)
    /\ []((genpc = "stats" /\ dna = 0) =>
            /\ ENABLED GenerateStatsPanic
            /\ ~ENABLED GenerateStatsReturn
            /\ \A r \in 0..1 : ~ENABLED GenerateStatsDraw(r))

\* The stats of a DNA made by GenerateDNA, with both ends of the range drawn.
C36_Witness ==
    /\ genpc = "returned" /\ dna = DnaLoops
    /\ stats[1] = 5000 /\ stats[2] = 1
====
